---- MODULE Spec2Model ----
(***************************************************************************)
(* Model of video/out/w32_common.c: the win32 GUI thread, its message      *)
(* loop, the dispatch queue that runs caller requests on the GUI thread,   *)
(* and the window geometry state (windowed <-> fullscreen).                *)
(***************************************************************************)
EXTENDS Integers, Sequences, FiniteSets, TLC

VARIABLES
    w32,        \* struct vo_w32_state (the fields the model needs)
    opts,       \* struct mp_vo_opts, written by the player core
    vo,         \* struct vo: dwidth, dheight, w32
    sys,        \* the window system: native window, posted messages, sink
    event_flags,\* w32->event_flags (atomic)
    queue,      \* dispatch queue: ids of the queued items, head first
    items,      \* every item ever submitted, by id
    interrupted,\* dispatch queue: interrupted flag
    gui,        \* the GUI thread: its position, the item it runs
    callers,    \* the caller threads: position, item, last results
    rdv,        \* the init barrier (mp_rendezvous): -1 (not reached), 0 or 1
    hist        \* history of what happened (for stating properties)

vars == <<w32, opts, vo, sys, event_flags, queue, items, interrupted, gui,
          callers, rdv, hist>>

-----------------------------------------------------------------------------
(* Bounds *)

\* number of requests (other than init/uninit) the callers issue in one run
MaxCalls == 2

\* number of window messages of the user/system handled in one run
MaxMsgs == 2

\* number of requests the caller issues in one run of the geometry specification
MaxGeoCalls == 3

\* number of window messages of the user handled in one such run
MaxGeoMsgs == 1
\* rectangle coordinates tried on the border conversions
MaxCoord == 2
\* requests of the fitting specification
MaxFitCalls == 2
\* keyboard messages of the input specification
MaxKeyMsgs == 4
\* requests and WM_SIZING messages of the interactive-resize specification
MaxSizingCalls == 2
MaxSizingMsgs == 1
MaxMouseCalls == 2
MaxMouseMsgs == 2

-----------------------------------------------------------------------------
(* Values *)

NULL == "NULL"
HWND == "HWND"

VO_EVENT_RESIZE == "RESIZE"
VO_EVENT_WIN_STATE == "WIN_STATE"
VO_EVENT_EXPOSE == "EXPOSE"

VO_TRUE == "VO_TRUE"
VO_FALSE == "VO_FALSE"
VO_NOTIMPL == "VO_NOTIMPL"

\* The monitors of the desktop, primary first (rcMonitor of each).
Monitors == << [x0 |-> 0, y0 |-> 0, x1 |-> 8, y1 |-> 6],
               [x0 |-> 8, y0 |-> 0, x1 |-> 12, y1 |-> 4] >>

\* SM_XVIRTUALSCREEN .. SM_CYVIRTUALSCREEN: the union of the monitors
VirtualScreen == [x |-> 0, y |-> 0, cx |-> 12, cy |-> 6]

\* What AdjustWindowRect adds on each side for a framed window; a window
\* without the frame bits has no non-client area.
FrameBorders == [l |-> 1, t |-> 2, r |-> 1, b |-> 1]
NoBorders == [l |-> 0, t |-> 0, r |-> 0, b |-> 0]

\* The window rectangle CreateWindowExW makes (stand-in for 100x100).
CreateRect == [left |-> 0, top |-> 0, right |-> 4, bottom |-> 4]

Max(a, b) == IF a > b THEN a ELSE b
Min(a, b) == IF a < b THEN a ELSE b

\* C integer division truncates toward zero
CDiv(a, b) == IF a >= 0 THEN a \div b ELSE -((-a) \div b)

\* F(v), with v computed once
Let(v, F(_)) == CHOOSE y \in {F(x) : x \in {v}} : TRUE

-----------------------------------------------------------------------------
(* The window system (what the Win32 calls of the source answer) *)

AdjustWindowRect(rc, style) ==
    LET b == IF style = "FRAME" THEN FrameBorders ELSE NoBorders
    IN  [left |-> rc.left - b.l, top |-> rc.top - b.t,
         right |-> rc.right + b.r, bottom |-> rc.bottom + b.b]

\* GetWindowLong(hwnd, GWL_STYLE): 0 (no frame bits) when there is no window
GetWindowLong(s) == IF s.hwnd = "alive" THEN s.style ELSE "NOFRAME"

add_window_borders(s, rc) == AdjustWindowRect(rc, GetWindowLong(s))

\* mutant: the borders are taken off the wrong way round
subtract_window_borders_swapped(s, rc) ==
    LET b == add_window_borders(s, [left |-> 0, top |-> 0, right |-> 0, bottom |-> 0])
    IN  [left |-> rc.left - b.top, top |-> rc.top - b.left,
         right |-> rc.right - b.right, bottom |-> rc.bottom - b.bottom]

subtract_window_borders(s, rc) ==
    LET b == add_window_borders(s, [left |-> 0, top |-> 0, right |-> 0, bottom |-> 0])
    IN  [left |-> rc.left - b.left, top |-> rc.top - b.top,
         right |-> rc.right - b.right, bottom |-> rc.bottom - b.bottom]

\* client rectangle of the native window, in screen coordinates
ClientRectOf(s) == subtract_window_borders(s, s.wrect)

\* GetClientRect: right/bottom are the client width/height
GetClientRect(s) ==
    LET c == ClientRectOf(s)
    IN  [right |-> c.right - c.left, bottom |-> c.bottom - c.top]

\* ClientToScreen of (0,0)
ClientToScreen(s) == [x |-> ClientRectOf(s).left, y |-> ClientRectOf(s).top]

Overlap(rc, mon) ==
    Max(0, Min(rc.right, mon.x1) - Max(rc.left, mon.x0)) *
    Max(0, Min(rc.bottom, mon.y1) - Max(rc.top, mon.y0))

\* MonitorFromWindow(.., MONITOR_DEFAULTTOPRIMARY): index of the monitor with
\* the largest part of the window, the primary one if none has any
MonitorFromWindow(s) ==
    IF s.hwnd # "alive" THEN 1
    ELSE LET best == CHOOSE i \in 1..Len(Monitors) :
                        \A j \in 1..Len(Monitors) :
                            \/ Overlap(s.wrect, Monitors[i]) > Overlap(s.wrect, Monitors[j])
                            \/ Overlap(s.wrect, Monitors[i]) = Overlap(s.wrect, Monitors[j]) /\ i <= j
         IN  IF Overlap(s.wrect, Monitors[best]) = 0 THEN 1 ELSE best

\* get_monitor(id): EnumDisplayMonitors up to index id; 0 if there is none
get_monitor(id) == IF id >= 0 /\ id < Len(Monitors) THEN id + 1 ELSE 0

-----------------------------------------------------------------------------
(* Operators on the machine state m = [w, s, ev, vo, log]:                *)
(* w = w32, s = sys, ev = event_flags, vo = vo, log = the window messages  *)
(* WndProc handled during the step, in order                               *)

\* mutant: the flags are stored, not or'ed in
signal_events_store(m, events) == [m EXCEPT !.ev = events, !.unread = @ \cup events]

\* signal_events: atomic_fetch_or(&w32->event_flags, events)
\* (unread: the flags signalled that no drain has returned yet)
signal_events(m, events) == [m EXCEPT !.ev = @ \cup events, !.unread = @ \cup events]

update_screen_rect(m, o) ==
    LET screen == IF m.w.current_fs THEN o.fsscreen_id ELSE o.screen_id
    IN  IF m.w.current_fs /\ screen = -2
        THEN [m EXCEPT !.w.screenrc =
                [x0 |-> VirtualScreen.x, y0 |-> VirtualScreen.y,
                 x1 |-> VirtualScreen.cx + VirtualScreen.x,
                 y1 |-> VirtualScreen.cy + VirtualScreen.y]]
        ELSE LET mon == IF screen = -1 THEN MonitorFromWindow(m.s)
                        ELSE IF get_monitor(screen) # 0 THEN get_monitor(screen)
                        ELSE 1
             IN  [m EXCEPT !.w.screenrc = Monitors[mon]]

update_style(w, o) == IF o.border /\ ~w.current_fs THEN "FRAME" ELSE "NOFRAME"

\* WndProc, before the switch: if (!w32->window) w32->window = hWnd;
WndProc_enter(m) == IF m.w.window = NULL THEN [m EXCEPT !.w.window = HWND] ELSE m

-----------------------------------------------------------------------------
(* Keyboard input. s.kbd is the keyboard state GetKeyState/GetKeyboardState  *)
(* answer from (the keys that are down), s.keys what mp_input_put_key was    *)
(* given, in order, s.errors the number of MP_ERR lines.                     *)

\* the argument of mp_input_put_key: a named key or a character code, the
\* modifier bits or'ed in, and whether MP_KEY_STATE_DOWN is
Key(name, code, mods, down) == [name |-> name, code |-> code, mods |-> mods, down |-> down]

mp_input_put_key(m, key) == [m EXCEPT !.s.keys = Append(@, key)]

MP_ERR(m) == [m EXCEPT !.s.errors = @ + 1]

\* the key a message with this virtual key and KF_EXTENDED bit is about
PhysicalKey(vkey, ext) ==
    CASE vkey = "VK_CONTROL" -> IF ext THEN "VK_RCONTROL" ELSE "VK_LCONTROL"
      [] vkey = "VK_MENU" -> IF ext THEN "VK_RMENU" ELSE "VK_LMENU"
      [] OTHER -> vkey

\* GetKeyboardState: the keys that are down, the two-sided modifiers also
\* under their common code
GetKeyboardState(s) ==
    s.kbd \cup (IF {"VK_LCONTROL", "VK_RCONTROL"} \cap s.kbd # {} THEN {"VK_CONTROL"} ELSE {})
          \cup (IF {"VK_LMENU", "VK_RMENU"} \cap s.kbd # {} THEN {"VK_MENU"} ELSE {})

key_state(s, vk) == vk \in GetKeyboardState(s)

mod_state(m, o) ==
    LET alt_gr == o.use_alt_gr /\ key_state(m.s, "VK_RMENU") /\ key_state(m.s, "VK_LCONTROL")
    IN  (IF key_state(m.s, "VK_RCONTROL") \/ (key_state(m.s, "VK_LCONTROL") /\ ~alt_gr)
         THEN {"MP_KEY_MODIFIER_CTRL"} ELSE {})
        \cup (IF key_state(m.s, "VK_SHIFT") THEN {"MP_KEY_MODIFIER_SHIFT"} ELSE {})
        \cup (IF key_state(m.s, "VK_LMENU") \/ (key_state(m.s, "VK_RMENU") /\ ~alt_gr)
             THEN {"MP_KEY_MODIFIER_ALT"} ELSE {})

\* mutant: the lead bits are not shifted
decode_surrogate_pair_unshifted(lead, trail) == 65536 + (lead % 1024) + (trail % 1024)

\* 0x10000 + (((lead & 0x3ff) << 10) | (trail & 0x3ff)): the two masked
\* values have no bit in common once the first is shifted, so | adds them
decode_surrogate_pair(lead, trail) == 65536 + ((lead % 1024) * 1024 + (trail % 1024))

\* 0xd800 .. 0xdbff
IS_HIGH_SURROGATE(c) == 55296 <= c /\ c <= 56319
\* 0xdc00 .. 0xdfff
IS_LOW_SURROGATE(c) == 56320 <= c /\ c <= 57343

\* mutant: a low surrogate without a high one is passed on as it is
decode_utf16_lone_low(m, c) ==
    IF IS_HIGH_SURROGATE(c) THEN [m |-> [m EXCEPT !.w.high_surrogate = c], c |-> 0]
    ELSE IF IS_LOW_SURROGATE(c)
    THEN IF m.w.high_surrogate = 0
         THEN [m |-> m, c |-> c]
         ELSE [m |-> [m EXCEPT !.w.high_surrogate = 0],
               c |-> decode_surrogate_pair(m.w.high_surrogate, c)]
    ELSE IF m.w.high_surrogate # 0
    THEN [m |-> MP_ERR([m EXCEPT !.w.high_surrogate = 0]), c |-> 0]
    ELSE [m |-> m, c |-> c]

\* mutant: a high surrogate stays pending when another character follows it
decode_utf16_keep_high(m, c) ==
    IF IS_HIGH_SURROGATE(c) THEN [m |-> [m EXCEPT !.w.high_surrogate = c], c |-> 0]
    ELSE IF IS_LOW_SURROGATE(c)
    THEN IF m.w.high_surrogate = 0
         THEN [m |-> MP_ERR(m), c |-> 0]
         ELSE [m |-> [m EXCEPT !.w.high_surrogate = 0],
               c |-> decode_surrogate_pair(m.w.high_surrogate, c)]
    ELSE IF m.w.high_surrogate # 0
    THEN [m |-> MP_ERR(m), c |-> 0]
    ELSE [m |-> m, c |-> c]

\* decode_utf16: [m, c], c the code point or 0
decode_utf16(m, c) ==
    IF IS_HIGH_SURROGATE(c) THEN [m |-> [m EXCEPT !.w.high_surrogate = c], c |-> 0]
    ELSE IF IS_LOW_SURROGATE(c)
    THEN IF m.w.high_surrogate = 0
         THEN [m |-> MP_ERR(m), c |-> 0]
         ELSE [m |-> [m EXCEPT !.w.high_surrogate = 0],
               c |-> decode_surrogate_pair(m.w.high_surrogate, c)]
    ELSE IF m.w.high_surrogate # 0
    THEN [m |-> MP_ERR([m EXCEPT !.w.high_surrogate = 0]), c |-> 0]
    ELSE [m |-> m, c |-> c]

\* ToUnicode for the keys of this model, on a US layout: the character of the
\* key under the modifiers in keys, 0 when there is none. VK_PACKET_D83D and
\* VK_PACKET_DE00 are VK_PACKET with that UTF-16 code unit in the scancode.
ToUnicode(vkey, keys) ==
    IF vkey = "VK_PACKET_D83D" THEN 55357
    ELSE IF vkey = "VK_PACKET_DE00" THEN 56832
    ELSE IF vkey # "VK_A" THEN 0
    ELSE IF "VK_CONTROL" \in keys /\ "VK_MENU" \in keys THEN 0
    ELSE IF "VK_CONTROL" \in keys THEN 1
    ELSE IF "VK_SHIFT" \in keys THEN 65
    ELSE 97

\* to_unicode: the last complete code point ToUnicode gives
to_unicode(vkey, keys) == ToUnicode(vkey, keys)

\* mutant: the decoding is not tried again without Ctrl
decode_key_ctrl(m, o, vkey) ==
    LET keys0 == GetKeyboardState(m.s)
        keys1 == IF "VK_RMENU" \in keys0 /\ "VK_LCONTROL" \in keys0 /\ ~o.use_alt_gr
                 THEN ((keys0 \ {"VK_RMENU", "VK_LCONTROL", "VK_MENU", "VK_CONTROL"})
                       \cup (IF "VK_LMENU" \in keys0 THEN {"VK_MENU"} ELSE {}))
                      \cup (IF "VK_RCONTROL" \in keys0 THEN {"VK_CONTROL"} ELSE {})
                 ELSE keys0
        c1 == to_unicode(vkey, keys1)
        alt_off == c1 < 32 /\ "VK_MENU" \in keys1
        keys2 == IF alt_off THEN keys1 \ {"VK_LMENU", "VK_RMENU", "VK_MENU"} ELSE keys1
        c2 == IF alt_off THEN to_unicode(vkey, keys2) ELSE c1
    IN  IF c2 < 32 THEN [m |-> m, c |-> 0]
        ELSE IF c2 < 65536 THEN decode_utf16(m, c2)
        ELSE [m |-> m, c |-> c2]

\* decode_key: [m, c]
decode_key(m, o, vkey) ==
    LET keys0 == GetKeyboardState(m.s)
        keys1 == IF "VK_RMENU" \in keys0 /\ "VK_LCONTROL" \in keys0 /\ ~o.use_alt_gr
                 THEN ((keys0 \ {"VK_RMENU", "VK_LCONTROL", "VK_MENU", "VK_CONTROL"})
                       \cup (IF "VK_LMENU" \in keys0 THEN {"VK_MENU"} ELSE {}))
                      \cup (IF "VK_RCONTROL" \in keys0 THEN {"VK_CONTROL"} ELSE {})
                 ELSE keys0
        c1 == to_unicode(vkey, keys1)
        alt_off == c1 < 32 /\ "VK_MENU" \in keys1
        keys2 == IF alt_off THEN keys1 \ {"VK_LMENU", "VK_RMENU", "VK_MENU"} ELSE keys1
        c2 == IF alt_off THEN to_unicode(vkey, keys2) ELSE c1
        ctrl_off == c2 < 32 /\ "VK_CONTROL" \in keys2
        keys3 == IF ctrl_off THEN keys2 \ {"VK_LCONTROL", "VK_RCONTROL", "VK_CONTROL"}
                 ELSE keys2
        c3 == IF ctrl_off THEN to_unicode(vkey, keys3) ELSE c2
    IN  IF c3 < 32 THEN [m |-> m, c |-> 0]
        ELSE IF c3 < 65536 THEN decode_utf16(m, c3)
        ELSE [m |-> m, c |-> c3]

\* mp_w32_vkey_to_mpkey: the key of the table, "none" for 0
mp_w32_vkey_to_mpkey(vkey, extended) ==
    IF vkey = "VK_LEFT" THEN "MP_KEY_LEFT" ELSE "none"

\* handle_key_down; repeat is the KF_REPEAT bit of the scancode
handle_key_down(m, o, vkey, extended, repeat) ==
    IF repeat THEN m
    ELSE LET mpkey == mp_w32_vkey_to_mpkey(vkey, extended)
         IN  IF mpkey # "none"
             THEN mp_input_put_key(m, Key(mpkey, 0, mod_state(m, o), TRUE))
             ELSE LET d == decode_key(m, o, vkey)
                  IN  IF d.c = 0 THEN d.m
                      ELSE mp_input_put_key(d.m, Key("char", d.c, mod_state(d.m, o), TRUE))

\* what the input sink holds down after these keys: a key with
\* MP_KEY_STATE_DOWN stays down, MP_INPUT_RELEASE_ALL releases everything, a
\* key without a state is pressed and released at once
RECURSIVE Pressed(_)
Pressed(keys) ==
    IF keys = <<>> THEN {}
    ELSE LET k == keys[Len(keys)]
             before == Pressed(SubSeq(keys, 1, Len(keys) - 1))
         IN  IF k.name = "MP_INPUT_RELEASE_ALL" THEN {}
             ELSE IF k.down THEN before \cup {<<k.name, k.code>>}
             ELSE before

\* mutant: only keys reported down are released
handle_key_up_matching(m, vkey) ==
    IF vkey \in {"VK_MENU", "VK_CONTROL", "VK_SHIFT"} \/ Pressed(m.s.keys) = {} THEN m
    ELSE mp_input_put_key(m, Key("MP_INPUT_RELEASE_ALL", 0, {}, FALSE))

handle_key_up(m, vkey) ==
    IF vkey \in {"VK_MENU", "VK_CONTROL", "VK_SHIFT"} THEN m
    ELSE mp_input_put_key(m, Key("MP_INPUT_RELEASE_ALL", 0, {}, FALSE))

\* handle_char: [m, handled]
handle_char(m, o, wc) ==
    LET d == decode_utf16(m, wc)
    IN  IF d.c = 0 THEN [m |-> d.m, handled |-> TRUE]
        ELSE IF d.c < 32 THEN [m |-> d.m, handled |-> FALSE]
        ELSE [m |-> mp_input_put_key(d.m, Key("char", d.c, mod_state(d.m, o), FALSE)),
              handled |-> TRUE]

\* WndProc, case WM_SYSKEYDOWN (other than Alt+Space) / WM_KEYDOWN
WndProc_WM_KEYDOWN(m, o, vkey, extended, repeat) ==
    handle_key_down([WndProc_enter(m) EXCEPT !.log = Append(@, "WM_KEYDOWN")],
                    o, vkey, extended, repeat)

\* WndProc, case WM_SYSKEYUP / WM_KEYUP
WndProc_WM_KEYUP(m, vkey) ==
    handle_key_up([WndProc_enter(m) EXCEPT !.log = Append(@, "WM_KEYUP")], vkey)

\* WndProc, case WM_CHAR / WM_SYSCHAR
WndProc_WM_CHAR(m, o, wc) ==
    handle_char([WndProc_enter(m) EXCEPT !.log = Append(@, "WM_CHAR")], o, wc).m

\* WndProc, case WM_KILLFOCUS
WndProc_WM_KILLFOCUS(m) ==
    mp_input_put_key([WndProc_enter(m) EXCEPT !.log = Append(@, "WM_KILLFOCUS")],
                     Key("MP_INPUT_RELEASE_ALL", 0, {}, FALSE))

-----------------------------------------------------------------------------
\* WndProc, case WM_MOVE
WndProc_WM_MOVE(m) ==
    LET p == ClientToScreen(m.s)
        m1 == [WndProc_enter(m) EXCEPT !.w.window_x = p.x, !.w.window_y = p.y,
                                       !.log = Append(@, "WM_MOVE")]
    IN  signal_events(m1, {VO_EVENT_WIN_STATE})

\* WndProc, case WM_SIZE
WndProc_WM_SIZE(m) ==
    LET r == GetClientRect(m.s)
        m0 == [WndProc_enter(m) EXCEPT !.log = Append(@, "WM_SIZE")]
        m1 == IF r.right > 0 /\ r.bottom > 0
              THEN signal_events([m0 EXCEPT !.w.dw = r.right, !.w.dh = r.bottom],
                                 {VO_EVENT_RESIZE})
              ELSE m0
    IN  signal_events(m1, {VO_EVENT_WIN_STATE})

\* mutant: a dragged corner adjusts the edge next to it
get_resize_border_side(v) ==
    CASE v = "WMSZ_LEFT" -> 3
      [] v = "WMSZ_TOP" -> 2
      [] v = "WMSZ_RIGHT" -> 3
      [] v = "WMSZ_BOTTOM" -> 2
      [] v = "WMSZ_TOPLEFT" -> 0
      [] v = "WMSZ_TOPRIGHT" -> 2
      [] v = "WMSZ_BOTTOMLEFT" -> 0
      [] v = "WMSZ_BOTTOMRIGHT" -> 2
      [] OTHER -> -1

\* get_resize_border: the edge to adjust, 0=left, 1=top, 2=right, 3=bottom
get_resize_border(v) ==
    CASE v = "WMSZ_LEFT" -> 3
      [] v = "WMSZ_TOP" -> 2
      [] v = "WMSZ_RIGHT" -> 3
      [] v = "WMSZ_BOTTOM" -> 2
      [] v = "WMSZ_TOPLEFT" -> 1
      [] v = "WMSZ_TOPRIGHT" -> 1
      [] v = "WMSZ_BOTTOMLEFT" -> 3
      [] v = "WMSZ_BOTTOMRIGHT" -> 3
      [] OTHER -> -1

\* WndProc, case WM_SIZING: [m, rc, ret]; rc is the rectangle left in *lParam,
\* ret whether the message was answered (TRUE) or left to DefWindowProcW.
\* aspect = o_dwidth / (float) MPMAX(o_dheight, 1); d_w and d_h are truncated
\* toward zero. For the video sizes of this model (aspect 2 and 3/2, exact as
\* a float) the source's float arithmetic gives the numbers of the integer
\* arithmetic here. With o_dwidth = 0 the source converts c_w / 0.0 to int,
\* which is undefined: d_h is then inf, any of the values the action tries.
WndProc_WM_SIZING(m, o, wParam, rc, inf) ==
    LET m0 == [WndProc_enter(m) EXCEPT !.log = Append(@, "WM_SIZING")]
    IN  IF o.keepaspect /\ o.keepaspect_window /\ ~m0.w.current_fs /\ m0.w.parent = NULL
        THEN LET r == subtract_window_borders(m0.s, rc)
                 c_w == r.right - r.left
                 c_h == r.bottom - r.top
                 a_w == m0.w.o_dwidth
                 a_h == Max(m0.w.o_dheight, 1)
                 d_w == CDiv(c_h * a_w - c_w * a_h, a_h)
                 d_h == IF a_w = 0 THEN inf ELSE CDiv(c_w * a_h - c_h * a_w, a_w)
                 d_corners == <<d_w, d_h, -d_w, -d_h>>
                 corners == <<rc.left, rc.top, rc.right, rc.bottom>>
                 corner == get_resize_border(wParam)
                 c2 == IF corner >= 0
                       THEN [corners EXCEPT ![corner + 1] = @ - d_corners[corner + 1]]
                       ELSE corners
             IN  [m |-> m0, ret |-> TRUE,
                  rc |-> [left |-> c2[1], top |-> c2[2], right |-> c2[3], bottom |-> c2[4]]]
        ELSE [m |-> m0, rc |-> rc, ret |-> FALSE]

\* mutant: WM_CLOSE goes to DefWindowProcW, which destroys the window
WndProc_WM_CLOSE_default(m) ==
    [WndProc_enter(m) EXCEPT !.log = @ \o <<"WM_CLOSE", "WM_DESTROY", "WM_NCDESTROY">>,
                             !.s.keys = Append(@, Key("MP_KEY_CLOSE_WIN", 0, {}, FALSE)),
                             !.s.revoked = @ + 1,
                             !.w.destroyed = TRUE,
                             !.w.window = NULL,
                             !.s.quit = TRUE,
                             !.s.hwnd = "dead", !.s.posted = 0]

\* WndProc, case WM_CLOSE
WndProc_WM_CLOSE(m) ==
    [WndProc_enter(m) EXCEPT !.s.keys = Append(@, Key("MP_KEY_CLOSE_WIN", 0, {}, FALSE)),
                             !.log = Append(@, "WM_CLOSE")]

\* mutant: the destroy handler tests terminate only, not destroyed
WndProc_DESTROY_again(m, message) ==
    LET m0 == [WndProc_enter(m) EXCEPT !.log = Append(@, message)]
        m1 == IF ~m0.w.terminate
              THEN [m0 EXCEPT !.s.keys = Append(@, Key("MP_KEY_CLOSE_WIN", 0, {}, FALSE))]
              ELSE m0
    IN  [m1 EXCEPT !.s.revoked = IF m0.w.destroyed THEN @ ELSE @ + 1,
                   !.w.destroyed = TRUE,
                   !.w.window = NULL,
                   !.s.quit = TRUE]

\* WndProc, case WM_NCDESTROY / WM_DESTROY
WndProc_DESTROY(m, message) ==
    LET m0 == [WndProc_enter(m) EXCEPT !.log = Append(@, message)]
    IN  IF m0.w.destroyed THEN m0
        ELSE LET m1 == IF ~m0.w.terminate
                       THEN [m0 EXCEPT !.s.keys = Append(@, Key("MP_KEY_CLOSE_WIN", 0, {}, FALSE))]
                       ELSE m0
             IN  [m1 EXCEPT !.s.revoked = @ + 1,
                            !.w.destroyed = TRUE,
                            !.w.window = NULL,
                            !.s.quit = TRUE]

\* the mouse_button the WndProc switch sets for a button message
mouse_button(message) ==
    CASE message = "WM_LBUTTONDOWN" -> [btn |-> "MP_MOUSE_BTN0", state |-> "MP_KEY_STATE_DOWN"]
      [] message = "WM_LBUTTONUP" -> [btn |-> "MP_MOUSE_BTN0", state |-> "MP_KEY_STATE_UP"]
      [] message = "WM_MBUTTONDOWN" -> [btn |-> "MP_MOUSE_BTN1", state |-> "MP_KEY_STATE_DOWN"]
      [] message = "WM_MBUTTONUP" -> [btn |-> "MP_MOUSE_BTN1", state |-> "MP_KEY_STATE_UP"]
      [] message = "WM_RBUTTONDOWN" -> [btn |-> "MP_MOUSE_BTN2", state |-> "MP_KEY_STATE_DOWN"]
      [] message = "WM_RBUTTONUP" -> [btn |-> "MP_MOUSE_BTN2", state |-> "MP_KEY_STATE_UP"]
      [] OTHER -> [btn |-> "none", state |-> "none"]

\* a mouse button with its state and modifier bits, as mp_input_put_key gets it
MouseKey(btn, state, mods) ==
    [name |-> btn, code |-> 0, mods |-> mods,
     down |-> state = "MP_KEY_STATE_DOWN", up |-> state = "MP_KEY_STATE_UP"]

\* mutant: the window dragging hack puts no button-up
WndProc_button_no_up(m, o, message, enabled, dragging, moved) ==
    LET m0 == [WndProc_enter(m) EXCEPT !.log = Append(@, message)]
        b == mouse_button(message)
        mods == mod_state(m0, o)
        m1 == mp_input_put_key(m0, MouseKey(b.btn, b.state, mods))
    IN  IF /\ enabled
           /\ b.btn = "MP_MOUSE_BTN0" /\ b.state = "MP_KEY_STATE_DOWN" /\ mods = {}
           /\ ~m1.w.current_fs
           /\ ~dragging
        THEN LET m2 == [m1 EXCEPT !.s.capture = FALSE,
                                  !.log = Append(@, "WM_NCLBUTTONDOWN")]
                 m3 == IF moved = <<>> THEN m2
                       ELSE WndProc_WM_MOVE([m2 EXCEPT !.s.wrect =
                                [left |-> @.left + moved[1], right |-> @.right + moved[1],
                                 top |-> @.top + moved[2], bottom |-> @.bottom + moved[2]]])
             IN  [m |-> m3, drag |-> TRUE, def |-> FALSE]
        ELSE [m |-> [m1 EXCEPT !.s.capture = (b.state = "MP_KEY_STATE_DOWN")],
              drag |-> FALSE, def |-> TRUE]

\* WndProc, the button cases and the code after the switch. enabled is what
\* mp_input_mouse_enabled answers and dragging what mp_input_test_dragging
\* answers for the point; moved is how far the user drags the window in the
\* modal loop DefWindowProcW runs for WM_NCLBUTTONDOWN (<<>>: not at all).
\* Answers the state, whether the dragging hack ran (the handler then
\* returns 0) and whether DefWindowProcW got the button message.
WndProc_button(m, o, message, enabled, dragging, moved) ==
    LET m0 == [WndProc_enter(m) EXCEPT !.log = Append(@, message)]
        b == mouse_button(message)
        mods == mod_state(m0, o)
        m1 == mp_input_put_key(m0, MouseKey(b.btn, b.state, mods))
    IN  IF /\ enabled
           /\ b.btn = "MP_MOUSE_BTN0" /\ b.state = "MP_KEY_STATE_DOWN" /\ mods = {}
           /\ ~m1.w.current_fs
           /\ ~dragging
        THEN \* ReleaseCapture, SendMessage(WM_NCLBUTTONDOWN, HTCAPTION)
             LET m2 == [m1 EXCEPT !.s.capture = FALSE,
                                  !.log = Append(@, "WM_NCLBUTTONDOWN")]
                 m3 == IF moved = <<>> THEN m2
                       ELSE WndProc_WM_MOVE([m2 EXCEPT !.s.wrect =
                                [left |-> @.left + moved[1], right |-> @.right + moved[1],
                                 top |-> @.top + moved[2], bottom |-> @.bottom + moved[2]]])
             IN  [m |-> mp_input_put_key(m3, MouseKey("MP_MOUSE_BTN0", "MP_KEY_STATE_UP", {})),
                  drag |-> TRUE, def |-> FALSE]
        ELSE \* SetCapture / ReleaseCapture
             [m |-> [m1 EXCEPT !.s.capture = (b.state = "MP_KEY_STATE_DOWN")],
              drag |-> FALSE, def |-> TRUE]

\* DestroyWindow(hwnd): the window system sends WM_DESTROY, then WM_NCDESTROY,
\* to WndProc before it returns; messages posted to the window are dropped.
DestroyWindow(m) ==
    LET m0 == [m EXCEPT !.s.destroy_calls = @ + 1]
    IN  IF m0.s.hwnd # "alive" THEN m0
        ELSE LET m1 == WndProc_DESTROY(m0, "WM_DESTROY")
                 m2 == WndProc_DESTROY(m1, "WM_NCDESTROY")
             IN  [m2 EXCEPT !.s.hwnd = "dead", !.s.posted = 0]

\* SetWindowLong(GWL_STYLE) + SetWindowPos(.., SWP_FRAMECHANGED | SWP_SHOWWINDOW):
\* the window gets the rectangle; WM_MOVE / WM_SIZE are sent to WndProc
\* before it returns when the client origin / size changed.
SetWindowPos(m, style, r) ==
    IF m.s.hwnd # "alive" THEN m
    ELSE
    Let([m EXCEPT !.s.style = style, !.s.wrect = r, !.s.shown = TRUE], LAMBDA m0 :
    LET old == ClientRectOf(m.s)
        new == ClientRectOf(m0.s)
        moved == new.left # old.left \/ new.top # old.top
        sized == (new.right - new.left) # (old.right - old.left)
                 \/ (new.bottom - new.top) # (old.bottom - old.top)
    IN  Let(IF moved THEN WndProc_WM_MOVE(m0) ELSE m0, LAMBDA m1 :
        IF sized THEN WndProc_WM_SIZE(m1) ELSE m1))

\* mutant: the window bounds are not saved when switching to fullscreen
fs_geometry_nosave(m, toggle_fs) ==
    IF m.w.current_fs
    THEN [m EXCEPT !.w.window_x = m.w.screenrc.x0,
                   !.w.window_y = m.w.screenrc.y0,
                   !.w.dw = m.w.screenrc.x1 - m.w.screenrc.x0,
                   !.w.dh = m.w.screenrc.y1 - m.w.screenrc.y0]
    ELSE IF toggle_fs
         THEN [m EXCEPT !.w.dw = m.w.prev_width, !.w.dh = m.w.prev_height,
                        !.w.window_x = m.w.prev_x, !.w.window_y = m.w.prev_y]
         ELSE m

\* mutant: the window bounds are saved whenever the window is fullscreen
fs_geometry_resave(m, toggle_fs) ==
    IF m.w.current_fs
    THEN [m EXCEPT !.w.prev_width = m.w.dw, !.w.prev_height = m.w.dh,
                   !.w.prev_x = m.w.window_x, !.w.prev_y = m.w.window_y,
                   !.w.window_x = m.w.screenrc.x0,
                   !.w.window_y = m.w.screenrc.y0,
                   !.w.dw = m.w.screenrc.x1 - m.w.screenrc.x0,
                   !.w.dh = m.w.screenrc.y1 - m.w.screenrc.y0]
    ELSE IF toggle_fs
         THEN [m EXCEPT !.w.dw = m.w.prev_width, !.w.dh = m.w.prev_height,
                        !.w.window_x = m.w.prev_x, !.w.window_y = m.w.prev_y]
         ELSE m

\* mutant: the size is restored when switching from fullscreen, the position
\* is not
fs_geometry_norestore(m, toggle_fs) ==
    IF m.w.current_fs
    THEN LET m1 == IF toggle_fs
                   THEN [m EXCEPT !.w.prev_width = m.w.dw, !.w.prev_height = m.w.dh,
                                  !.w.prev_x = m.w.window_x, !.w.prev_y = m.w.window_y]
                   ELSE m
         IN  [m1 EXCEPT !.w.window_x = m.w.screenrc.x0,
                        !.w.window_y = m.w.screenrc.y0,
                        !.w.dw = m.w.screenrc.x1 - m.w.screenrc.x0,
                        !.w.dh = m.w.screenrc.y1 - m.w.screenrc.y0]
    ELSE IF toggle_fs
         THEN [m EXCEPT !.w.dw = m.w.prev_width, !.w.dh = m.w.prev_height]
         ELSE m

\* mutant: the window bounds are saved on every pass in fullscreen, not only
\* when switching to it
fs_geometry_save_always(m, toggle_fs) ==
    IF m.w.current_fs
    THEN [m EXCEPT !.w.prev_width = m.w.dw, !.w.prev_height = m.w.dh,
                   !.w.prev_x = m.w.window_x, !.w.prev_y = m.w.window_y,
                   !.w.window_x = m.w.screenrc.x0,
                   !.w.window_y = m.w.screenrc.y0,
                   !.w.dw = m.w.screenrc.x1 - m.w.screenrc.x0,
                   !.w.dh = m.w.screenrc.y1 - m.w.screenrc.y0]
    ELSE IF toggle_fs
         THEN [m EXCEPT !.w.dw = m.w.prev_width, !.w.dh = m.w.prev_height,
                        !.w.window_x = m.w.prev_x, !.w.window_y = m.w.prev_y]
         ELSE m

\* mutant: the screen rectangle is taken only when switching to fullscreen
fs_geometry_on_toggle(m, toggle_fs) ==
    IF m.w.current_fs
    THEN IF toggle_fs
         THEN [m EXCEPT !.w.prev_width = m.w.dw, !.w.prev_height = m.w.dh,
                        !.w.prev_x = m.w.window_x, !.w.prev_y = m.w.window_y,
                        !.w.window_x = m.w.screenrc.x0,
                        !.w.window_y = m.w.screenrc.y0,
                        !.w.dw = m.w.screenrc.x1 - m.w.screenrc.x0,
                        !.w.dh = m.w.screenrc.y1 - m.w.screenrc.y0]
         ELSE m
    ELSE IF toggle_fs
         THEN [m EXCEPT !.w.dw = m.w.prev_width, !.w.dh = m.w.prev_height,
                        !.w.window_x = m.w.prev_x, !.w.window_y = m.w.prev_y]
         ELSE m

\* reinit_window_state, the fullscreen branch: save the window bounds when
\* switching to fullscreen and take the screen rectangle; restore them when
\* switching from fullscreen
fs_geometry(m, toggle_fs) ==
    IF m.w.current_fs
    THEN LET m1 == IF toggle_fs
                   THEN [m EXCEPT !.w.prev_width = m.w.dw, !.w.prev_height = m.w.dh,
                                  !.w.prev_x = m.w.window_x, !.w.prev_y = m.w.window_y]
                   ELSE m
         IN  [m1 EXCEPT !.w.window_x = m.w.screenrc.x0,
                        !.w.window_y = m.w.screenrc.y0,
                        !.w.dw = m.w.screenrc.x1 - m.w.screenrc.x0,
                        !.w.dh = m.w.screenrc.y1 - m.w.screenrc.y0]
    ELSE IF toggle_fs
         THEN [m EXCEPT !.w.dw = m.w.prev_width, !.w.dh = m.w.prev_height,
                        !.w.window_x = m.w.prev_x, !.w.window_y = m.w.prev_y]
         ELSE m

\* mutant: the fitted window keeps the top left corner, not the center
fit_and_place_topleft(m4, o, style, screen_w, screen_h, cr, r) ==
    LET o_w == IF o.fit_border THEN r.right - r.left ELSE cr.right - cr.left
        o_h == IF o.fit_border THEN r.bottom - r.top ELSE cr.bottom - cr.top
    IN  IF ~m4.w.current_fs /\ (o_w > screen_w \/ o_h > screen_h)
        THEN
        LET n_w0 == IF o.fit_border
                    THEN screen_w - (r.right - cr.right) - (cr.left - r.left)
                    ELSE screen_w
            n_h0 == IF o.fit_border
                    THEN screen_h - (r.bottom - cr.bottom) - (cr.top - r.top)
                    ELSE screen_h
            c_w == cr.right - cr.left
            c_h == cr.bottom - cr.top
            wide == IF c_h = 0 THEN TRUE ELSE c_w * n_h0 > n_w0 * c_h
            n_w == IF wide THEN n_w0
                   ELSE IF c_h = 0 THEN n_w0 ELSE CDiv(n_h0 * c_w, c_h)
            n_h == IF wide THEN (IF c_h = 0 \/ c_w = 0 THEN 0 ELSE CDiv(n_w0 * c_h, c_w))
                   ELSE n_h0
            o_cx == r.left + CDiv(r.right - r.left, 2)
            o_cy == r.top + CDiv(r.bottom - r.top, 2)
        IN  Let(add_window_borders(m4.s, [left |-> 0, top |-> 0,
                                          right |-> n_w, bottom |-> n_h]), LAMBDA rb :
            LET b_top == -rb.top
                b_left == -rb.left
                f_w == rb.right - rb.left
                f_h == rb.bottom - rb.top
                r_left == r.left
                r_top == r.top
            IN  Let([left |-> r_left, top |-> r_top,
                     right |-> r_left + f_w, bottom |-> r_top + f_h], LAMBDA rn :
                Let([m4 EXCEPT !.w.dw = n_w, !.w.dh = n_h,
                               !.w.window_x = rn.left + b_left,
                               !.w.window_y = rn.top + b_top,
                               !.fit = [called |-> TRUE, ran |-> TRUE, fitted |-> TRUE,
                                        fit_border |-> o.fit_border,
                                        screen_w |-> screen_w, screen_h |-> screen_h,
                                        cr |-> cr, r |-> r, applied |-> rn]],
                    LAMBDA m5 :
                signal_events(SetWindowPos(m5, style, rn), {VO_EVENT_RESIZE}))))
        ELSE signal_events(
                 SetWindowPos([m4 EXCEPT !.fit = [called |-> TRUE, ran |-> ~m4.w.current_fs, fitted |-> FALSE,
                                                  fit_border |-> o.fit_border,
                                                  screen_w |-> screen_w,
                                                  screen_h |-> screen_h,
                                                  cr |-> cr, r |-> r, applied |-> r]],
                              style, r),
                 {VO_EVENT_RESIZE})

\* mutant: the window is placed as asked for and no event is signalled
fit_and_place_silent(m4, o, style, screen_w, screen_h, cr, r) ==
    SetWindowPos([m4 EXCEPT !.fit = [called |-> TRUE, ran |-> ~m4.w.current_fs,
                                     fitted |-> FALSE, fit_border |-> o.fit_border,
                                     screen_w |-> screen_w, screen_h |-> screen_h,
                                     cr |-> cr, r |-> r, applied |-> r]],
                 style, r)

\* mutant: the window is placed as asked for, never fitted
fit_and_place_unfitted(m4, o, style, screen_w, screen_h, cr, r) ==
    signal_events(
        SetWindowPos([m4 EXCEPT !.fit = [called |-> TRUE, ran |-> ~m4.w.current_fs, fitted |-> TRUE,
                                         fit_border |-> o.fit_border,
                                         screen_w |-> screen_w, screen_h |-> screen_h,
                                         cr |-> cr, r |-> r, applied |-> r]],
                     style, r),
        {VO_EVENT_RESIZE})

\* reinit_window_state, the end: a windowed window larger than the screen is
\* fitted into it, keeping the aspect ratio and the center; the window is
\* placed. cr is the client rectangle asked for, r the same with borders.
fit_and_place(m4, o, style, screen_w, screen_h, cr, r) ==
    LET o_w == IF o.fit_border THEN r.right - r.left ELSE cr.right - cr.left
        o_h == IF o.fit_border THEN r.bottom - r.top ELSE cr.bottom - cr.top
    IN  IF ~m4.w.current_fs /\ (o_w > screen_w \/ o_h > screen_h)
        THEN
        LET n_w0 == IF o.fit_border
                    THEN screen_w - (r.right - cr.right) - (cr.left - r.left)
                    ELSE screen_w
            n_h0 == IF o.fit_border
                    THEN screen_h - (r.bottom - cr.bottom) - (cr.top - r.top)
                    ELSE screen_h
            c_w == cr.right - cr.left
            c_h == cr.bottom - cr.top
            \* letterbox. The source computes with doubles (asp, s_asp) and
            \* truncates; for the sizes of this model (below 14) that gives the
            \* same numbers as the integer arithmetic here:
            \* asp > s_asp  <=>  c_w * n_h0 > n_w0 * c_h (c_h, n_h0 > 0)
            wide == IF c_h = 0 THEN TRUE ELSE c_w * n_h0 > n_w0 * c_h
            n_w == IF wide THEN n_w0
                   ELSE IF c_h = 0 THEN n_w0 ELSE CDiv(n_h0 * c_w, c_h)
            n_h == IF wide THEN (IF c_h = 0 \/ c_w = 0 THEN 0 ELSE CDiv(n_w0 * c_h, c_w))
                   ELSE n_h0
            \* old window center
            o_cx == r.left + CDiv(r.right - r.left, 2)
            o_cy == r.top + CDiv(r.bottom - r.top, 2)
        IN  Let(add_window_borders(m4.s, [left |-> 0, top |-> 0,
                                          right |-> n_w, bottom |-> n_h]), LAMBDA rb :
            LET b_top == -rb.top
                b_left == -rb.left
                f_w == rb.right - rb.left
                f_h == rb.bottom - rb.top
                r_left == o_cx - CDiv(f_w, 2)
                r_top == o_cy - CDiv(f_h, 2)
            IN  Let([left |-> r_left, top |-> r_top,
                     right |-> r_left + f_w, bottom |-> r_top + f_h], LAMBDA rn :
                Let([m4 EXCEPT !.w.dw = n_w, !.w.dh = n_h,
                               !.w.window_x = rn.left + b_left,
                               !.w.window_y = rn.top + b_top,
                               !.fit = [called |-> TRUE, ran |-> TRUE, fitted |-> TRUE,
                                        fit_border |-> o.fit_border,
                                        screen_w |-> screen_w, screen_h |-> screen_h,
                                        cr |-> cr, r |-> r, applied |-> rn]],
                    LAMBDA m5 :
                signal_events(SetWindowPos(m5, style, rn), {VO_EVENT_RESIZE}))))
        ELSE signal_events(
                 SetWindowPos([m4 EXCEPT !.fit = [called |-> TRUE, ran |-> ~m4.w.current_fs, fitted |-> FALSE,
                                                  fit_border |-> o.fit_border,
                                                  screen_w |-> screen_w,
                                                  screen_h |-> screen_h,
                                                  cr |-> cr, r |-> r, applied |-> r]],
                              style, r),
                 {VO_EVENT_RESIZE})

\* mutant: the window state is re-applied to an embedded window too
reinit_window_state_embedded(m, o) ==
    LET new_fs == o.fullscreen
        toggle_fs == m.w.current_fs # new_fs
    IN  Let([m EXCEPT !.w.current_fs = new_fs], LAMBDA m1 :
        Let(update_screen_rect(m1, o), LAMBDA m2 :
        Let(fs_geometry(m2, toggle_fs), LAMBDA m3 :
        \* SetWindowLong(w32->window, GWL_STYLE, style)
        Let(IF m3.s.hwnd = "alive"
            THEN [m3 EXCEPT !.s.style = update_style(m1.w, o)] ELSE m3, LAMBDA m4 :
        Let([left |-> m3.w.window_x, right |-> m3.w.window_x + m3.w.dw,
             top |-> m3.w.window_y, bottom |-> m3.w.window_y + m3.w.dh], LAMBDA cr :
        fit_and_place(m4, o, update_style(m1.w, o),
                      m2.w.screenrc.x1 - m2.w.screenrc.x0,
                      m2.w.screenrc.y1 - m2.w.screenrc.y0,
                      cr, add_window_borders(m4.s, cr)))))))

\* Update the window title, position, size, and border style.
reinit_window_state(m, o) ==
    IF m.w.parent # NULL THEN [m EXCEPT !.fit = [called |-> TRUE, ran |-> FALSE]]
    ELSE
    LET new_fs == o.fullscreen
        toggle_fs == m.w.current_fs # new_fs
    IN  Let([m EXCEPT !.w.current_fs = new_fs], LAMBDA m1 :
        Let(update_screen_rect(m1, o), LAMBDA m2 :
        Let(fs_geometry(m2, toggle_fs), LAMBDA m3 :
        \* SetWindowLong(w32->window, GWL_STYLE, style)
        Let(IF m3.s.hwnd = "alive"
            THEN [m3 EXCEPT !.s.style = update_style(m1.w, o)] ELSE m3, LAMBDA m4 :
        Let([left |-> m3.w.window_x, right |-> m3.w.window_x + m3.w.dw,
             top |-> m3.w.window_y, bottom |-> m3.w.window_y + m3.w.dh], LAMBDA cr :
        fit_and_place(m4, o, update_style(m1.w, o),
                      m2.w.screenrc.x1 - m2.w.screenrc.x0,
                      m2.w.screenrc.y1 - m2.w.screenrc.y0,
                      cr, add_window_borders(m4.s, cr)))))))

\* gui_thread_reconfig; geo is what vo_calc_window_geometry answers
\* (geo.win: x0, y0 and the size vo_apply_window_geometry puts in vo->dwidth/dheight)
gui_thread_reconfig(m, o, geo) ==
    LET v0 == [dwidth |-> geo.w, dheight |-> geo.h]
        reset_size0 == m.w.o_dwidth # v0.dwidth \/ m.w.o_dheight # v0.dheight
        pos_init == m.w.parent = NULL /\ ~m.w.window_bounds_initialized
        reset_size == reset_size0 \/ pos_init
        cl == GetClientRect(m.s)
    IN  Let([m EXCEPT !.w.o_dwidth = v0.dwidth, !.w.o_dheight = v0.dheight,
                      !.vo = v0], LAMBDA m1 :
        Let(IF m1.w.parent = NULL
            THEN IF m1.w.window_bounds_initialized
                 THEN [m1 EXCEPT !.vo.dwidth = cl.right, !.vo.dheight = cl.bottom]
                 ELSE [m1 EXCEPT !.w.window_bounds_initialized = TRUE,
                                 !.w.window_x = geo.x0, !.w.prev_x = geo.x0,
                                 !.w.window_y = geo.y0, !.w.prev_y = geo.y0]
            ELSE [m1 EXCEPT !.vo.dwidth = cl.right, !.vo.dheight = cl.bottom],
            LAMBDA m2 :
        Let(IF m2.w.parent = NULL /\ reset_size
            THEN [m2 EXCEPT !.w.prev_width = m2.w.o_dwidth, !.vo.dwidth = m2.w.o_dwidth,
                            !.w.prev_height = m2.w.o_dheight, !.vo.dheight = m2.w.o_dheight]
            ELSE m2, LAMBDA m3 :
        \* recenter window around old position on new video size
        Let(IF ~pos_init
            THEN [m3 EXCEPT !.w.window_x = @ + CDiv(m3.w.dw, 2) - CDiv(m3.vo.dwidth, 2),
                            !.w.window_y = @ + CDiv(m3.w.dh, 2) - CDiv(m3.vo.dheight, 2)]
            ELSE m3, LAMBDA m4 :
        Let([m4 EXCEPT !.w.dw = m4.vo.dwidth, !.w.dh = m4.vo.dheight], LAMBDA m5 :
        reinit_window_state(m5, o))))))

\* mutant: VOCTRL_GET_UNFS_WINDOW_SIZE answers the size the window has now
gui_thread_control_current(m, o, request, arg) ==
    IF request = "VOCTRL_GET_UNFS_WINDOW_SIZE"
    THEN IF ~m.w.window_bounds_initialized
         THEN [m |-> m, ret |-> VO_FALSE, out |-> <<>>]
         ELSE [m |-> m, ret |-> VO_TRUE, out |-> <<m.w.dw, m.w.dh>>]
    ELSE IF request = "VOCTRL_SET_UNFS_WINDOW_SIZE"
    THEN IF ~m.w.window_bounds_initialized
         THEN [m |-> m, ret |-> VO_FALSE, out |-> <<>>]
         ELSE [m |-> reinit_window_state(
                        IF m.w.current_fs
                        THEN [m EXCEPT
                                !.w.prev_x = @ + CDiv(m.w.prev_width, 2) - CDiv(arg[1], 2),
                                !.w.prev_y = @ + CDiv(m.w.prev_height, 2) - CDiv(arg[2], 2),
                                !.w.prev_width = arg[1],
                                !.w.prev_height = arg[2]]
                        ELSE [m EXCEPT
                                !.w.window_x = @ + CDiv(m.w.dw, 2) - CDiv(arg[1], 2),
                                !.w.window_y = @ + CDiv(m.w.dh, 2) - CDiv(arg[2], 2),
                                !.w.dw = arg[1],
                                !.w.dh = arg[2]], o),
               ret |-> VO_TRUE, out |-> <<>>]
    ELSE [m |-> IF request = "VOCTRL_FULLSCREEN" /\ o.fullscreen = m.w.current_fs
                THEN m ELSE reinit_window_state(m, o),
          ret |-> VO_TRUE, out |-> <<>>]

\* gui_thread_control: the result is [m, ret, out]; out is what is written
\* through arg (<<>> when nothing is)
gui_thread_control(m, o, request, arg) ==
    CASE request = "VOCTRL_FULLSCREEN" ->
            [m |-> IF o.fullscreen # m.w.current_fs THEN reinit_window_state(m, o) ELSE m,
             ret |-> VO_TRUE, out |-> <<>>]
      [] request = "VOCTRL_ONTOP" ->
            [m |-> reinit_window_state(m, o), ret |-> VO_TRUE, out |-> <<>>]
      [] request = "VOCTRL_BORDER" ->
            [m |-> reinit_window_state(m, o), ret |-> VO_TRUE, out |-> <<>>]
      [] request = "VOCTRL_GET_UNFS_WINDOW_SIZE" ->
            IF ~m.w.window_bounds_initialized
            THEN [m |-> m, ret |-> VO_FALSE, out |-> <<>>]
            ELSE [m |-> m, ret |-> VO_TRUE,
                  out |-> << IF m.w.current_fs THEN m.w.prev_width ELSE m.w.dw,
                             IF m.w.current_fs THEN m.w.prev_height ELSE m.w.dh >>]
      [] request = "VOCTRL_SET_UNFS_WINDOW_SIZE" ->
            IF ~m.w.window_bounds_initialized
            THEN [m |-> m, ret |-> VO_FALSE, out |-> <<>>]
            ELSE LET m1 == IF m.w.current_fs
                           THEN [m EXCEPT
                                   !.w.prev_x = @ + CDiv(m.w.prev_width, 2) - CDiv(arg[1], 2),
                                   !.w.prev_y = @ + CDiv(m.w.prev_height, 2) - CDiv(arg[2], 2),
                                   !.w.prev_width = arg[1],
                                   !.w.prev_height = arg[2]]
                           ELSE [m EXCEPT
                                   !.w.window_x = @ + CDiv(m.w.dw, 2) - CDiv(arg[1], 2),
                                   !.w.window_y = @ + CDiv(m.w.dh, 2) - CDiv(arg[2], 2),
                                   !.w.dw = arg[1],
                                   !.w.dh = arg[2]]
                 IN  [m |-> reinit_window_state(m1, o), ret |-> VO_TRUE, out |-> <<>>]
      [] request = "VOCTRL_SET_CURSOR_VISIBILITY" ->
            [m |-> [m EXCEPT !.w.cursor_visible = arg[1]], ret |-> VO_TRUE, out |-> <<>>]
      [] request = "VOCTRL_KILL_SCREENSAVER" ->
            [m |-> [m EXCEPT !.w.disable_screensaver = TRUE], ret |-> VO_TRUE, out |-> <<>>]
      [] request = "VOCTRL_RESTORE_SCREENSAVER" ->
            [m |-> [m EXCEPT !.w.disable_screensaver = FALSE], ret |-> VO_TRUE, out |-> <<>>]
      [] OTHER -> [m |-> m, ret |-> VO_NOTIMPL, out |-> <<>>]

\* mutant: every request re-applies the window state first
do_control_reinit(m, o, request, arg) ==
    Let(gui_thread_control(reinit_window_state(m, o), o, request, arg), LAMBDA c :
    LET events == c.m.ev
        m1 == [c.m EXCEPT !.ev = {}, !.unread = @ \ events,
                          !.dup = @ \/ (events \ c.m.unread # {})]
        m2 == IF VO_EVENT_RESIZE \in events
              THEN [m1 EXCEPT !.vo.dwidth = c.m.w.dw, !.vo.dheight = c.m.w.dh]
              ELSE m1
    IN  [m |-> m2, ret |-> c.ret, out |-> c.out, events |-> events])

\* mutant: the requests are served as if the window bounds were initialized
do_control_unchecked(m, o, request, arg) ==
    Let(gui_thread_control([m EXCEPT !.w.window_bounds_initialized = TRUE],
                           o, request, arg), LAMBDA c :
    LET events == c.m.ev
        m1 == [c.m EXCEPT !.ev = {}, !.unread = @ \ events,
                          !.dup = @ \/ (events \ c.m.unread # {}),
                          !.w.window_bounds_initialized = m.w.window_bounds_initialized]
        m2 == IF VO_EVENT_RESIZE \in events
              THEN [m1 EXCEPT !.vo.dwidth = c.m.w.dw, !.vo.dheight = c.m.w.dh]
              ELSE m1
    IN  [m |-> m2, ret |-> c.ret, out |-> c.out, events |-> events])

\* do_control: runs the request, then drains the event flags into *events
do_control(m, o, request, arg) ==
    Let(gui_thread_control(m, o, request, arg), LAMBDA c :
    LET events == c.m.ev
        m1 == [c.m EXCEPT !.ev = {}, !.unread = @ \ events,
                          !.dup = @ \/ (events \ c.m.unread # {})]
        m2 == IF VO_EVENT_RESIZE \in events
              THEN [m1 EXCEPT !.vo.dwidth = c.m.w.dw, !.vo.dheight = c.m.w.dh]
              ELSE m1
    IN  [m |-> m2, ret |-> c.ret, out |-> c.out, events |-> events])

\* mutant: w32->terminate is not set
do_terminate_noflag(m) ==
    LET m2 == IF ~m.w.destroyed THEN DestroyWindow(m) ELSE m
    IN  [m2 EXCEPT !.intr = TRUE]

do_terminate(m) ==
    LET m1 == [m EXCEPT !.w.terminate = TRUE]
        m2 == IF ~m1.w.destroyed THEN DestroyWindow(m1) ELSE m1
    IN  \* mp_dispatch_interrupt
        [m2 EXCEPT !.intr = TRUE]

\* what item->fn(item->fn_data) does and answers: [m, ret, out, events]
RunItem(m, o, it) ==
    CASE it.fn = "do_control" -> do_control(m, o, it.request, it.arg)
      [] it.fn = "gui_thread_reconfig" ->
            [m |-> gui_thread_reconfig(m, o, it.arg), ret |-> "none",
             out |-> <<>>, events |-> {}]
      [] it.fn = "do_terminate" ->
            [m |-> do_terminate(m), ret |-> "none", out |-> <<>>, events |-> {}]
      [] OTHER -> [m |-> m, ret |-> "none", out |-> <<>>, events |-> {}]

-----------------------------------------------------------------------------
(* State *)

Callers == {"vo", "aux"}

\* *w32 = (struct vo_w32_state){ .. }: everything else is zero
InitW32 ==
    [terminate |-> FALSE, window |-> NULL, parent |-> NULL,
     screenrc |-> [x0 |-> 0, y0 |-> 0, x1 |-> 0, y1 |-> 0],
     prev_width |-> 0, prev_height |-> 0, prev_x |-> 0, prev_y |-> 0,
     destroyed |-> FALSE, window_bounds_initialized |-> FALSE,
     current_fs |-> FALSE,
     window_x |-> 0, window_y |-> 0, dw |-> 0, dh |-> 0,
     o_dwidth |-> 0, o_dheight |-> 0,
     disable_screensaver |-> FALSE, cursor_visible |-> FALSE,
     high_surrogate |-> 0]

InitSys ==
    [hwnd |-> "none", style |-> "NOFRAME",
     wrect |-> [left |-> 0, top |-> 0, right |-> 0, bottom |-> 0],
     shown |-> FALSE, posted |-> 0, quit |-> FALSE,
     keys |-> <<>>, revoked |-> 0, destroy_calls |-> 0,
     kbd |-> {}, errors |-> 0, capture |-> FALSE]

InitHist ==
    [calls |-> 0, msgs |-> 0, started |-> <<>>, nested |-> {},
     raw |-> {}, locked |-> {}, hwnd_seen |-> {}, kind |-> "none",
     pend |-> {}, at_exit |-> -1, drained |-> -1,
     pre |-> [x |-> 0, y |-> 0, w |-> 0, h |-> 0, mon |-> 1,
              prev_x |-> 0, prev_y |-> 0, prev_width |-> 0, prev_height |-> 0],
     rt |-> [phase |-> "none", x |-> 0, y |-> 0, w |-> 0, h |-> 0],
     probe |-> [fn |-> "none"], fit |-> [called |-> FALSE, ran |-> FALSE],
     ctl |-> [request |-> "none"], unread |-> {}, dup |-> FALSE,
     init |-> [rendezvous |-> 0, ret |-> -1],
     unfs |-> [phase |-> "none", fitted |-> FALSE],
     last |-> [msg |-> "none", vkey |-> "none", wc |-> 0, keys |-> <<>>, kbd |-> {},
               high_surrogate |-> 0, errors |-> 0,
               prev_msg |-> "none", prev_wc |-> 0, prev_keys |-> <<>>,
               prev_high_surrogate |-> 0, broken |-> 3]]

InitWith(o) ==
    /\ w32 = InitW32
    /\ opts = o
    /\ vo = [dwidth |-> 0, dheight |-> 0, w32 |-> NULL]
    /\ sys = InitSys
    /\ event_flags = {}
    /\ queue = <<>>
    /\ items = <<>>
    /\ interrupted = FALSE
    /\ gui = [pc |-> "unstarted", item |-> 0, from |-> "none"]
    /\ callers = [c \in Callers |->
                    [pc |-> IF c = "vo" THEN "start" ELSE "off", item |-> 0]]
    /\ rdv = -1
    /\ hist = InitHist

\* the machine state the handlers work on, and its write-back
\* (log: the window messages handled on the way; fit: what the last windowed
\* reinit_window_state asked for and applied; unread, dup: the flags signalled
\* and not yet returned by a drain, and whether a drain returned any other)
M == [w |-> w32, s |-> sys, ev |-> event_flags, vo |-> vo,
      intr |-> interrupted, log |-> <<>>, fit |-> [called |-> FALSE, ran |-> FALSE],
      unread |-> hist.unread, dup |-> hist.dup]

Commit(m) ==
    /\ w32' = m.w
    /\ sys' = m.s
    /\ event_flags' = m.ev
    /\ vo' = m.vo
    /\ interrupted' = m.intr

Geometry(w) == [x |-> w.window_x, y |-> w.window_y, w |-> w.dw, h |-> w.dh]

-----------------------------------------------------------------------------
(* vo_w32_init and the start of the GUI thread *)

\* vo_w32_init up to mp_rendezvous: the state is allocated, the thread created
vo_w32_init ==
    /\ callers["vo"].pc = "start"
    /\ gui.pc = "unstarted"
    /\ vo.w32 = NULL
    /\ vo' = [vo EXCEPT !.w32 = "w32"]
    /\ callers' = [callers EXCEPT !["vo"].pc = "rendezvous"]
    /\ gui' = [gui EXCEPT !.pc = "create"]
    /\ UNCHANGED <<w32, opts, sys, event_flags, queue, items, interrupted,
                   rdv, hist>>

\* mutant: the message loop is entered whether or not there is a window
gui_thread_create_loop(ok) ==
    /\ gui.pc = "create"
    /\ Commit([M EXCEPT !.w.parent = IF opts.WinID >= 0 THEN "PARENT" ELSE NULL])
    /\ rdv' = 0
    /\ gui' = [gui EXCEPT !.pc = "loop"]
    /\ hist' = [hist EXCEPT !.init.rendezvous = @ + 1]
    /\ UNCHANGED <<opts, queue, items, callers>>

\* gui_thread up to mp_rendezvous; ok: whether CreateWindowExW made a window
gui_thread_create(ok) ==
    /\ gui.pc = "create"
    /\ LET parent == IF opts.WinID >= 0 THEN "PARENT" ELSE NULL
           w1 == [w32 EXCEPT !.parent = parent]
       IN  IF ok
           THEN LET s1 == [sys EXCEPT !.hwnd = "alive", !.wrect = CreateRect,
                                      !.shown = (parent # NULL),
                                      !.style = IF parent # NULL THEN "NOFRAME"
                                                ELSE update_style(w1, opts)]
                    m1 == [M EXCEPT !.w = [w1 EXCEPT !.window = HWND,
                                                    !.cursor_visible = TRUE],
                                    !.s = s1]
                IN  /\ Commit(update_screen_rect(m1, opts))
                    /\ rdv' = 1
                    /\ gui' = [gui EXCEPT !.pc = "loop"]
           ELSE /\ Commit([M EXCEPT !.w = w1])
                /\ rdv' = 0
                /\ gui' = [gui EXCEPT !.pc = "cleanup"]
    /\ hist' = [hist EXCEPT !.init.rendezvous = @ + 1]
    /\ UNCHANGED <<opts, queue, items, callers>>

\* mutant: vo_w32_init returns success without waiting at the barrier
vo_w32_init_return_early ==
    /\ callers["vo"].pc = "rendezvous"
    /\ callers' = [c \in Callers |-> [callers[c] EXCEPT !.pc = "idle"]]
    /\ hist' = [hist EXCEPT !.init.ret = 1]
    /\ UNCHANGED <<w32, opts, vo, sys, event_flags, queue, items, interrupted,
                   gui, rdv>>

\* vo_w32_init after mp_rendezvous: the value the GUI thread passed is had;
\* 0: the thread is joined, the state freed, vo->w32 cleared
vo_w32_init_return ==
    /\ callers["vo"].pc = "rendezvous"
    /\ rdv # -1
    /\ IF rdv # 0
       THEN /\ callers' = [c \in Callers |-> [callers[c] EXCEPT !.pc = "idle"]]
            /\ hist' = [hist EXCEPT !.init.ret = 1]
            /\ vo' = vo
       ELSE /\ gui.pc = "exited"     \* pthread_join
            /\ callers' = [callers EXCEPT !["vo"].pc = "init_failed"]
            /\ hist' = [hist EXCEPT !.init.ret = 0]
            /\ vo' = [vo EXCEPT !.w32 = NULL]
    /\ UNCHANGED <<w32, opts, sys, event_flags, queue, items, interrupted,
                   gui, rdv>>

-----------------------------------------------------------------------------
(* Caller threads: mp_dispatch_run and the entry points built on it *)

UninitCalled == \E i \in DOMAIN items : items[i].fn = "do_terminate"

TerminateDone == \E i \in DOMAIN items : items[i].fn = "do_terminate" /\ items[i].completed

\* mp_dispatch_run, first half (mp_dispatch_append under the queue lock):
\* the item is put at the tail of the queue
mp_dispatch_append(c, item) ==
    /\ items' = Append(items, item)
    /\ queue' = Append(queue, Len(items) + 1)
    /\ callers' = [callers EXCEPT ![c] = [pc |-> "wakeup", item |-> Len(items) + 1]]

NewItem(c, rq) ==
    [fn |-> rq.fn, request |-> rq.request, arg |-> rq.arg, owner |-> c,
     completed |-> FALSE, ret |-> "none", out |-> <<>>, events |-> {}]

\* mutant: the function is called on the caller's thread right away, not
\* through the dispatch queue
Submit_direct(c, rq) ==
    /\ callers[c].pc = "idle"
    /\ opts' = [k \in DOMAIN opts |-> IF k \in DOMAIN rq.set THEN rq.set[k] ELSE opts[k]]
    /\ \E r \in {RunItem(M, opts', NewItem(c, rq))} :
           /\ Commit(r.m)
           /\ items' = Append(items, [NewItem(c, rq) EXCEPT
                                        !.completed = TRUE, !.ret = r.ret,
                                        !.out = r.out, !.events = r.events])
    /\ hist' = [hist EXCEPT !.calls = @ + 1, !.started = Append(@, Len(items) + 1)]
    /\ UNCHANGED <<queue, gui, callers, rdv>>

\* vo_w32_control (request other than VOCTRL_CHECK_EVENTS), vo_w32_config,
\* vo_w32_run_on_thread: up to the enqueueing. rq.set is what the player core
\* wrote to the options before the call.
Submit(c, rq) ==
    /\ callers[c].pc = "idle"
    /\ opts' = [k \in DOMAIN opts |-> IF k \in DOMAIN rq.set THEN rq.set[k] ELSE opts[k]]
    /\ mp_dispatch_append(c, NewItem(c, rq))
    /\ hist' = [hist EXCEPT !.calls = @ + 1]
    /\ UNCHANGED <<w32, vo, sys, event_flags, interrupted, gui, rdv>>

\* vo_w32_uninit up to the enqueueing of do_terminate
vo_w32_uninit ==
    /\ callers["vo"].pc = "idle"
    /\ mp_dispatch_append("vo", NewItem("vo",
           [fn |-> "do_terminate", request |-> "none", arg |-> <<>>]))
    /\ hist' = [hist EXCEPT !.pend = {i \in DOMAIN items : ~items[i].completed}]
    /\ UNCHANGED <<w32, opts, vo, sys, event_flags, interrupted, gui, rdv>>

\* wakeup_gui_thread, called by the submitting thread after the enqueueing:
\* PostMessage(w32->window, WM_USER, 0, 0) reaches the GUI thread's message
\* queue only if the handle names a live window
wakeup_gui_thread(c) ==
    /\ callers[c].pc = "wakeup"
    /\ sys' = IF w32.window # NULL /\ sys.hwnd = "alive"
              THEN [sys EXCEPT !.posted = @ + 1]
              ELSE sys
    /\ callers' = [callers EXCEPT ![c].pc = "wait"]
    /\ hist' = [hist EXCEPT !.raw = @ \cup {<<c, "window", "read">>}]
    /\ UNCHANGED <<w32, opts, vo, event_flags, queue, items, interrupted, gui, rdv>>

\* mp_dispatch_run, second half: returns once the item is completed;
\* vo_w32_uninit goes on to pthread_join
mp_dispatch_run_return(c) ==
    /\ callers[c].pc = "wait"
    /\ items[callers[c].item].completed
    /\ callers' = [callers EXCEPT ![c].pc =
                     IF items[callers[c].item].fn = "do_terminate"
                     THEN "join" ELSE "idle"]
    /\ UNCHANGED <<w32, opts, vo, sys, event_flags, queue, items, interrupted,
                   gui, rdv, hist>>

\* vo_w32_uninit: pthread_join, then the state is freed
vo_w32_uninit_join ==
    /\ callers["vo"].pc = "join"
    /\ gui.pc = "exited"
    /\ callers' = [callers EXCEPT !["vo"].pc = "uninit_done"]
    /\ vo' = [vo EXCEPT !.w32 = NULL]
    /\ UNCHANGED <<w32, opts, sys, event_flags, queue, items, interrupted,
                   gui, rdv, hist>>

\* vo_w32_hwnd: reads w32->window without any synchronization
\* (taken here between vo_w32_init and the start of vo_w32_uninit)
vo_w32_hwnd(c) ==
    /\ callers[c].pc = "idle"
    /\ ~UninitCalled
    /\ hist' = [hist EXCEPT !.hwnd_seen = @ \cup {w32.window},
                            !.raw = @ \cup {<<c, "window", "read">>}]
    /\ UNCHANGED <<w32, opts, vo, sys, event_flags, queue, items, interrupted,
                   gui, callers, rdv>>

\* mutant: the size is read right away, without mp_dispatch_lock
check_events_nolock(c) ==
    /\ callers[c].pc = "idle"
    /\ hist.calls < MaxCalls
    /\ event_flags' = {}
    /\ vo' = IF VO_EVENT_RESIZE \in event_flags
             THEN [vo EXCEPT !.dwidth = w32.dw, !.dheight = w32.dh] ELSE vo
    /\ hist' = [hist EXCEPT !.calls = @ + 1,
                            !.unread = @ \ event_flags,
                            !.dup = @ \/ (event_flags \ hist.unread # {}),
                            !.raw = IF VO_EVENT_RESIZE \in event_flags
                                    THEN @ \cup {<<c, "dw", "read">>, <<c, "dh", "read">>}
                                    ELSE @]
    /\ UNCHANGED <<w32, opts, sys, queue, items, interrupted, gui, callers, rdv>>

\* vo_w32_control(VOCTRL_CHECK_EVENTS): atomic_fetch_and(&w32->event_flags, 0);
\* with VO_EVENT_RESIZE the size is read next, under mp_dispatch_lock
check_events(c) ==
    /\ callers[c].pc = "idle"
    /\ hist.calls < MaxCalls
    /\ event_flags' = {}
    /\ callers' = [callers EXCEPT ![c].pc =
                     IF VO_EVENT_RESIZE \in event_flags THEN "lock" ELSE "idle"]
    /\ hist' = [hist EXCEPT !.calls = @ + 1,
                            !.unread = @ \ event_flags,
                            !.dup = @ \/ (event_flags \ hist.unread # {})]
    /\ UNCHANGED <<w32, opts, vo, sys, queue, items, interrupted, gui, rdv>>

\* mp_dispatch_lock: the lock is requested and the GUI thread woken up
mp_dispatch_lock(c) ==
    /\ callers[c].pc = "lock"
    /\ sys' = IF w32.window # NULL /\ sys.hwnd = "alive"
              THEN [sys EXCEPT !.posted = @ + 1]
              ELSE sys
    /\ callers' = [callers EXCEPT ![c].pc = "locking"]
    /\ hist' = [hist EXCEPT !.raw = @ \cup {<<c, "window", "read">>}]
    /\ UNCHANGED <<w32, opts, vo, event_flags, queue, items, interrupted, gui, rdv>>

\* mutant: the lock is had whatever the GUI thread does
check_events_locked_anytime(c) ==
    /\ callers[c].pc = "locking"
    /\ vo' = [vo EXCEPT !.dwidth = w32.dw, !.dheight = w32.dh]
    /\ callers' = [callers EXCEPT ![c].pc = "idle"]
    /\ hist' = [hist EXCEPT !.locked = @ \cup {<<c, "dw", "read">>, <<c, "dh", "read">>}]
    /\ UNCHANGED <<w32, opts, sys, event_flags, queue, items, interrupted, gui, rdv>>

\* mp_dispatch_lock returns once the GUI thread idles inside
\* mp_dispatch_queue_process; vo->dwidth/dheight are read from w32->dw/dh;
\* mp_dispatch_unlock
check_events_locked(c) ==
    /\ callers[c].pc = "locking"
    /\ gui.pc = "process"
    /\ vo' = [vo EXCEPT !.dwidth = w32.dw, !.dheight = w32.dh]
    /\ callers' = [callers EXCEPT ![c].pc = "idle"]
    /\ hist' = [hist EXCEPT !.locked = @ \cup {<<c, "dw", "read">>, <<c, "dh", "read">>}]
    /\ UNCHANGED <<w32, opts, sys, event_flags, queue, items, interrupted, gui, rdv>>

-----------------------------------------------------------------------------
(* The GUI thread: run_message_loop and mp_dispatch_queue_process *)

\* GetMessageW returns a posted WM_USER; WndProc calls
\* mp_dispatch_queue_process(w32->dispatch, 0)
GetMessage_WM_USER ==
    /\ gui.pc = "loop"
    /\ sys.posted > 0
    /\ sys' = [sys EXCEPT !.posted = @ - 1]
    /\ gui' = [gui EXCEPT !.pc = "process", !.from = "WM_USER"]
    /\ UNCHANGED <<w32, opts, vo, event_flags, queue, items, interrupted,
                   callers, rdv, hist>>

\* mutant: the GUI thread ends with the message loop
GetMessage_WM_QUIT_exit ==
    /\ gui.pc = "loop"
    /\ sys.posted = 0
    /\ sys.quit
    /\ gui' = [gui EXCEPT !.pc = "cleanup"]
    /\ UNCHANGED <<w32, opts, vo, sys, event_flags, queue, items, interrupted,
                   callers, rdv, hist>>

\* GetMessageW returns 0 (WM_QUIT, once no posted message is left): the
\* first loop of run_message_loop ends
GetMessage_WM_QUIT ==
    /\ gui.pc = "loop"
    /\ sys.posted = 0
    /\ sys.quit
    /\ gui' = [gui EXCEPT !.pc = "fallback"]
    /\ UNCHANGED <<w32, opts, vo, sys, event_flags, queue, items, interrupted,
                   callers, rdv, hist>>

\* mutant: the second loop is left as soon as the message loop ends
run_message_loop_fallback_nowait ==
    /\ gui.pc = "fallback"
    /\ gui' = [gui EXCEPT !.pc = "cleanup"]
    /\ UNCHANGED <<w32, opts, vo, sys, event_flags, queue, items, interrupted,
                   callers, rdv, hist>>

\* mutant: the second loop also ends when the queue is empty
run_message_loop_fallback_empty ==
    /\ gui.pc = "fallback"
    /\ gui' = IF w32.terminate \/ queue = <<>>
              THEN [gui EXCEPT !.pc = "cleanup"]
              ELSE [gui EXCEPT !.pc = "process", !.from = "fallback"]
    /\ UNCHANGED <<w32, opts, vo, sys, event_flags, queue, items, interrupted,
                   callers, rdv, hist>>

\* mutant: the second loop waits for terminate without processing the queue
run_message_loop_fallback_idle ==
    /\ gui.pc = "fallback"
    /\ gui' = IF w32.terminate THEN [gui EXCEPT !.pc = "cleanup"] ELSE gui
    /\ UNCHANGED <<w32, opts, vo, sys, event_flags, queue, items, interrupted,
                   callers, rdv, hist>>

\* while (!w32->terminate) mp_dispatch_queue_process(w32->dispatch, 1000);
run_message_loop_fallback ==
    /\ gui.pc = "fallback"
    /\ gui' = IF w32.terminate
              THEN [gui EXCEPT !.pc = "cleanup"]
              ELSE [gui EXCEPT !.pc = "process", !.from = "fallback"]
    /\ UNCHANGED <<w32, opts, vo, sys, event_flags, queue, items, interrupted,
                   callers, rdv, hist>>

\* a thread is inside mp_dispatch_lock (lock_requests > 0)
LockRequested == \E c \in Callers : callers[c].pc = "locking"

\* mp_dispatch_queue_process: the head item is taken off the queue
process_take ==
    /\ gui.pc = "process"
    /\ ~LockRequested
    /\ queue # <<>>
    /\ gui' = [gui EXCEPT !.pc = "task", !.item = Head(queue)]
    /\ queue' = Tail(queue)
    /\ hist' = [hist EXCEPT !.started = Append(@, Head(queue)), !.nested = {}]
    /\ UNCHANGED <<w32, opts, vo, sys, event_flags, items, interrupted,
                   callers, rdv>>

\* what the round-trip history becomes when item it turns w into w2
NextRt(rt, it, w, w2) ==
    IF it.request = "VOCTRL_FULLSCREEN"
    THEN IF ~w.current_fs /\ w2.current_fs
         THEN [phase |-> "in", x |-> w.window_x, y |-> w.window_y,
               w |-> w.dw, h |-> w.dh]
         ELSE IF w.current_fs /\ ~w2.current_fs /\ rt.phase = "in"
         THEN [rt EXCEPT !.phase = "out"]
         ELSE IF w.current_fs = w2.current_fs /\ rt.phase = "in"
         THEN rt
         ELSE [rt EXCEPT !.phase = "none"]
    ELSE [rt EXCEPT !.phase = "none"]

\* what item it did to the fullscreen state, w being the state before it
StepKind(it, w, o, w2) ==
    IF it.fn # "do_control" \/ w.parent # NULL THEN "none"
    ELSE IF it.request = "VOCTRL_FULLSCREEN" /\ ~w.current_fs /\ o.fullscreen
         THEN "fs_enter"
    ELSE IF it.request = "VOCTRL_FULLSCREEN" /\ w.current_fs /\ ~o.fullscreen
         THEN "fs_exit"
    ELSE IF it.request \in {"VOCTRL_FULLSCREEN", "VOCTRL_ONTOP", "VOCTRL_BORDER"}
            /\ w.current_fs /\ o.fullscreen
         THEN "fs_reapply"
    ELSE "none"

\* the history of VOCTRL_SET_UNFS_WINDOW_SIZE / VOCTRL_GET_UNFS_WINDOW_SIZE:
\* "set" after a successful set (fitted: its reinit_window_state shrank the
\* window), "got" when the very next thing the GUI thread did was a get
NextUnfs(u, it, r) ==
    IF it.request = "VOCTRL_SET_UNFS_WINDOW_SIZE" /\ r.ret = VO_TRUE
    THEN [phase |-> "set", fitted |-> r.m.fit.ran /\ r.m.fit.fitted]
    ELSE IF it.request = "VOCTRL_GET_UNFS_WINDOW_SIZE" /\ u.phase = "set"
    THEN [u EXCEPT !.phase = "got"]
    ELSE InitHist.unfs

\* mp_dispatch_queue_process: item->fn(item->fn_data), outside the queue lock
process_run ==
    /\ gui.pc = "task"
    /\ \E it \in {items[gui.item]} : \E r \in {RunItem(M, opts, it)} :
           /\ Commit(r.m)
           /\ items' = [items EXCEPT ![gui.item].ret = r.ret,
                                     ![gui.item].out = r.out,
                                     ![gui.item].events = r.events]
           /\ hist' = [hist EXCEPT
                         !.nested = {<<it.fn, r.m.log[i]>> : i \in 1..Len(r.m.log)},
                         !.kind = StepKind(it, w32, opts, r.m.w),
                         !.pre = [x |-> w32.window_x, y |-> w32.window_y,
                                  w |-> w32.dw, h |-> w32.dh,
                                  mon |-> MonitorFromWindow(sys),
                                  prev_x |-> w32.prev_x, prev_y |-> w32.prev_y,
                                  prev_width |-> w32.prev_width,
                                  prev_height |-> w32.prev_height],
                         !.rt = NextRt(@, it, w32, r.m.w),
                         !.fit = r.m.fit,
                         !.unread = r.m.unread, !.dup = r.m.dup,
                         !.ctl = [request |-> it.request, arg |-> it.arg,
                                  w |-> w32, s |-> sys, vo |-> vo,
                                  ev |-> event_flags],
                         !.unfs = NextUnfs(@, it, r),
                         !.probe = InitHist.probe]
    /\ gui' = [gui EXCEPT !.pc = "ran"]
    /\ UNCHANGED <<opts, queue, callers, rdv>>

\* mp_dispatch_queue_process: the item is marked completed under the lock
process_complete ==
    /\ gui.pc = "ran"
    /\ items' = [items EXCEPT ![gui.item].completed = TRUE]
    /\ gui' = [gui EXCEPT !.pc = "process"]
    /\ hist' = [hist EXCEPT !.ctl = InitHist.ctl, !.fit = InitHist.fit,
                            !.unfs = IF @.phase = "set" THEN @ ELSE InitHist.unfs]
    /\ UNCHANGED <<w32, opts, vo, sys, event_flags, queue, interrupted,
                   callers, rdv>>

\* mp_dispatch_queue_process returns: the queue is empty and either the
\* timeout is 0 or over, or the queue was interrupted
process_return ==
    /\ gui.pc = "process"
    /\ ~LockRequested
    /\ queue = <<>>
    /\ interrupted' = FALSE
    /\ gui' = [gui EXCEPT !.pc = IF gui.from = "WM_USER" THEN "loop" ELSE "fallback",
                          !.from = "none"]
    /\ hist' = IF TerminateDone /\ hist.drained = -1
               THEN [hist EXCEPT !.drained = Len(items)]
               ELSE hist
    /\ UNCHANGED <<w32, opts, vo, sys, event_flags, queue, items, callers, rdv>>

\* mutant: the cleanup destroys the window whenever it has a handle
gui_thread_exit_unchecked ==
    /\ gui.pc = "cleanup"
    /\ Commit(IF w32.window # NULL THEN DestroyWindow(M) ELSE M)
    /\ gui' = [gui EXCEPT !.pc = "exited"]
    /\ hist' = [hist EXCEPT !.at_exit = Len(items)]
    /\ UNCHANGED <<opts, queue, items, callers, rdv>>

\* gui_thread after run_message_loop: cleanup, then the thread ends
gui_thread_exit ==
    /\ gui.pc = "cleanup"
    /\ Commit(IF w32.window # NULL /\ ~w32.destroyed THEN DestroyWindow(M) ELSE M)
    /\ gui' = [gui EXCEPT !.pc = "exited"]
    /\ hist' = [hist EXCEPT !.at_exit = Len(items)]
    /\ UNCHANGED <<opts, queue, items, callers, rdv>>

-----------------------------------------------------------------------------
(* Window messages the window system sends while the GUI thread is in      *)
(* GetMessageW                                                             *)

\* mutant: messages are also handled while a task runs
InLoop_any == sys.hwnd = "alive" /\ hist.msgs < MaxMsgs

\* DispatchMessageW in run_message_loop: the GUI thread is in the message loop
InLoop == gui.pc = "loop" /\ sys.hwnd = "alive" /\ hist.msgs < MaxMsgs

HandledThen(m, name, pc) ==
    /\ Commit(m)
    /\ hist' = [hist EXCEPT !.msgs = @ + 1, !.kind = "none",
                            !.unread = m.unread, !.dup = m.dup,
                            !.unfs = InitHist.unfs,
                            !.nested = IF gui.pc \in {"task", "ran"}
                                       THEN @ \cup {<<items[gui.item].fn, name>>}
                                       ELSE @,
                            !.rt = [@ EXCEPT !.phase = "none"]]
    /\ gui' = [gui EXCEPT !.pc = pc]
    /\ UNCHANGED <<opts, queue, items, callers, rdv>>

Handled(m, name) == HandledThen(m, name, gui.pc)

\* the user moved the window: the client origin is now p
WM_MOVE(p) ==
    /\ InLoop
    /\ LET c == ClientRectOf(sys)
           dx == p[1] - c.left
           dy == p[2] - c.top
           s1 == [sys EXCEPT !.wrect = [left |-> @.left + dx, right |-> @.right + dx,
                                        top |-> @.top + dy, bottom |-> @.bottom + dy]]
       IN  Handled(WndProc_WM_MOVE([M EXCEPT !.s = s1]), "WM_MOVE")

\* the user resized the window: the client size is now sz
WM_SIZE(sz) ==
    /\ InLoop
    /\ LET c == ClientRectOf(sys)
           dw == sz[1] - (c.right - c.left)
           dh == sz[2] - (c.bottom - c.top)
           s1 == [sys EXCEPT !.wrect = [@ EXCEPT !.right = @ + dw, !.bottom = @ + dh]]
       IN  Handled(WndProc_WM_SIZE([M EXCEPT !.s = s1]), "WM_SIZE")

WM_CLOSE ==
    /\ InLoop
    /\ Handled(WndProc_WM_CLOSE(M), "WM_CLOSE")

\* something else destroyed the window: WndProc gets WM_DESTROY and then, in
\* a call of its own, WM_NCDESTROY; or (in --wid mode) only WM_NCDESTROY
WM_DESTROY(nc_only) ==
    /\ InLoop
    /\ nc_only => w32.parent # NULL
    /\ IF nc_only
       THEN HandledThen([WndProc_DESTROY(M, "WM_NCDESTROY") EXCEPT
                            !.s.hwnd = "dead", !.s.posted = 0], "WM_DESTROY", "loop")
       ELSE HandledThen(WndProc_DESTROY(M, "WM_DESTROY"), "WM_DESTROY", "destroying")

\* the WM_NCDESTROY that follows WM_DESTROY; the window is gone after it
WM_NCDESTROY ==
    /\ gui.pc = "destroying"
    /\ Commit([WndProc_DESTROY(M, "WM_NCDESTROY") EXCEPT
                  !.s.hwnd = "dead", !.s.posted = 0])
    /\ gui' = [gui EXCEPT !.pc = "loop"]
    /\ UNCHANGED <<opts, queue, items, callers, rdv, hist>>

\* the user presses or releases a mouse button over the window, the keys in
\* kbd held down; hist.probe keeps the message, what the input context
\* answered and the state the handler found
WM_BUTTON(message, kbd, enabled, dragging, moved) ==
    /\ gui.pc = "loop"
    /\ sys.hwnd = "alive"
    /\ sys.shown
    /\ hist.msgs < MaxMouseMsgs
    /\ \E r \in {WndProc_button([M EXCEPT !.s.kbd = kbd], opts, message,
                                 enabled, dragging, moved)} :
           /\ Commit(r.m)
           /\ hist' = [hist EXCEPT !.msgs = @ + 1, !.kind = "none",
                                   !.unfs = InitHist.unfs,
                                   !.rt = [@ EXCEPT !.phase = "none"],
                                   !.unread = r.m.unread, !.dup = r.m.dup,
                                   !.probe = [fn |-> "WndProc_button", message |-> message,
                                              enabled |-> enabled, dragging |-> dragging,
                                              moved |-> moved,
                                              mods |-> mod_state([M EXCEPT !.s.kbd = kbd], opts),
                                              fs |-> w32.current_fs, keys |-> sys.keys,
                                              w |-> w32,
                                              drag |-> r.drag, def |-> r.def]]
    /\ UNCHANGED <<opts, queue, items, gui, callers, rdv>>

\* the user drags an edge or a corner of the visible window: WM_SIZING with
\* the dragged edge and the rectangle proposed; hist.probe keeps both and
\* what the handler answered
WM_SIZING(edge, rc) ==
    /\ gui.pc = "loop"
    /\ sys.hwnd = "alive"
    /\ sys.shown
    /\ hist.msgs < MaxSizingMsgs
    /\ \E inf \in (IF w32.o_dwidth = 0 THEN {-1, 0, 1} ELSE {0}) :
       \E r \in {WndProc_WM_SIZING(M, opts, edge, rc, inf)} :
           /\ Commit(r.m)
           /\ hist' = [hist EXCEPT !.msgs = @ + 1, !.kind = "none",
                                   !.unfs = InitHist.unfs,
                                   !.rt = [@ EXCEPT !.phase = "none"],
                                   !.probe = [fn |-> "WM_SIZING", edge |-> edge,
                                              rc |-> rc, out |-> r.rc, ret |-> r.ret]]
    /\ UNCHANGED <<opts, queue, items, gui, callers, rdv>>

\* a keyboard message taken from the queue and handled by WndProc; hist.last
\* keeps the message and the state it found, the same of the one before, and
\* (broken) how many messages ago a character other than a surrogate found a
\* high surrogate pending (3: none did, or longer ago)
KeyHandled(m, name, vkey, wc) ==
    /\ gui.pc = "loop"
    /\ sys.hwnd = "alive"
    /\ hist.msgs < MaxKeyMsgs
    /\ Commit(m)
    /\ hist' = [hist EXCEPT !.msgs = @ + 1, !.kind = "none",
                            !.rt = [@ EXCEPT !.phase = "none"],
                            !.last = [msg |-> name, vkey |-> vkey, wc |-> wc,
                                      keys |-> sys.keys, kbd |-> sys.kbd,
                                      high_surrogate |-> w32.high_surrogate,
                                      errors |-> sys.errors,
                                      prev_msg |-> hist.last.msg,
                                      prev_wc |-> hist.last.wc,
                                      prev_keys |-> hist.last.keys,
                                      prev_high_surrogate |-> hist.last.high_surrogate,
                                      broken |->
                                          IF /\ name = "WM_CHAR"
                                             /\ ~IS_HIGH_SURROGATE(wc)
                                             /\ ~IS_LOW_SURROGATE(wc)
                                             /\ w32.high_surrogate # 0
                                          THEN 0
                                          ELSE Min(hist.last.broken + 1, 3)]]
    /\ UNCHANGED <<opts, queue, items, gui, callers, rdv>>

\* a key went down (or repeats: KF_REPEAT is set when it was down already)
WM_KEYDOWN(vkey, extended) ==
    LET key == PhysicalKey(vkey, extended)
    IN  KeyHandled(WndProc_WM_KEYDOWN([M EXCEPT !.s.kbd = @ \cup {key}], opts,
                                      vkey, extended, key \in sys.kbd),
                   "WM_KEYDOWN", vkey, 0)

\* a key went up; the window need not have seen it go down
WM_KEYUP(vkey, extended) ==
    LET key == PhysicalKey(vkey, extended)
    IN  KeyHandled(WndProc_WM_KEYUP([M EXCEPT !.s.kbd = @ \ {key}], vkey),
                   "WM_KEYUP", vkey, 0)

\* a UTF-16 code unit of typed text
WM_CHAR(wc) == KeyHandled(WndProc_WM_CHAR(M, opts, wc), "WM_CHAR", "none", wc)

\* the window lost the keyboard focus
WM_KILLFOCUS == KeyHandled(WndProc_WM_KILLFOCUS(M), "WM_KILLFOCUS", "none", 0)

-----------------------------------------------------------------------------
(* Specifications *)

DefaultOpts ==
    [fullscreen |-> FALSE, border |-> TRUE, ontop |-> FALSE, fit_border |-> TRUE,
     screen_id |-> -1, fsscreen_id |-> -1, WinID |-> -1, use_alt_gr |-> FALSE,
     keepaspect |-> TRUE, keepaspect_window |-> TRUE]

Rq(fn, request, arg, set) == [fn |-> fn, request |-> request, arg |-> arg, set |-> set]

NoSet == [k \in {} |-> TRUE]

\* the requests of the threading specification
ConcRequests ==
    { Rq("gui_thread_reconfig", "none", [x0 |-> 1, y0 |-> 2, w |-> 4, h |-> 3], NoSet),
      Rq("cb", "none", <<>>, NoSet) }

GuiStep ==
    \/ \E ok \in BOOLEAN : gui_thread_create(ok)
    \/ WM_NCDESTROY
    \/ GetMessage_WM_USER
    \/ GetMessage_WM_QUIT
    \/ run_message_loop_fallback
    \/ process_take
    \/ process_run
    \/ process_complete
    \/ process_return
    \/ gui_thread_exit

RunStep ==
    \/ vo_w32_init
    \/ vo_w32_init_return
    \/ vo_w32_uninit
    \/ \E c \in Callers : wakeup_gui_thread(c)
    \/ \E c \in Callers : mp_dispatch_run_return(c)
    \/ vo_w32_uninit_join

LockStep ==
    \/ \E c \in Callers : mp_dispatch_lock(c)
    \/ \E c \in Callers : check_events_locked(c)

\* Threads: two caller threads, the window with or without a parent, messages
\* that close and destroy the window
Init == \E wid \in {-1, 7} : InitWith([DefaultOpts EXCEPT !.WinID = wid])

Next ==
    \/ GuiStep
    \/ RunStep
    \/ LockStep
    \/ \E c \in Callers, rq \in ConcRequests : hist.calls < MaxCalls /\ Submit(c, rq)
    \/ vo_w32_hwnd("vo")
    \/ \E c \in Callers : check_events(c)
    \/ WM_CLOSE
    \/ \E nc \in BOOLEAN : WM_DESTROY(nc)

Spec == Init /\ [][Next]_vars

\* The scheduler runs every thread that can take a step; nothing makes a
\* caller issue a request, and nothing makes the window system send a message.
CallerProgress(c) ==
    \/ wakeup_gui_thread(c)
    \/ mp_dispatch_run_return(c)
    \/ mp_dispatch_lock(c)
    \/ check_events_locked(c)

FairInit == InitWith(DefaultOpts)

FairNext ==
    \/ GuiStep
    \/ RunStep
    \/ LockStep
    \/ \E c \in Callers, rq \in ConcRequests : hist.calls < MaxCalls /\ Submit(c, rq)
    \/ check_events("aux")
    \/ WM_DESTROY(FALSE)

FairSpec ==
    /\ FairInit /\ [][FairNext]_vars
    /\ WF_vars(GuiStep)
    /\ \A c \in Callers : WF_vars(CallerProgress(c))
    /\ WF_vars(vo_w32_init_return \/ vo_w32_uninit_join)

\* Geometry: one caller thread configures the window, switches fullscreen,
\* border and ontop and sets the size; the user moves and resizes the window.
\* The window is created and not destroyed.
GeoInputs == { [x0 |-> 5, y0 |-> 2, w |-> 6, h |-> 3] }

GeoRequests ==
    { Rq("gui_thread_reconfig", "none", geo, NoSet) : geo \in GeoInputs }
    \cup { Rq("do_control", "VOCTRL_FULLSCREEN", <<>>, [fullscreen |-> b]) : b \in BOOLEAN }
    \cup { Rq("do_control", "VOCTRL_BORDER", <<>>, [border |-> FALSE]),
           Rq("do_control", "VOCTRL_ONTOP", <<>>, [ontop |-> TRUE]),
           Rq("do_control", "VOCTRL_SET_UNFS_WINDOW_SIZE", <<2, 2>>, NoSet) }

GeoInit == \E fs \in {-1, 1} : InitWith([DefaultOpts EXCEPT !.fsscreen_id = fs])

GeoNext ==
    \/ vo_w32_init
    \/ gui_thread_create(TRUE)
    \/ vo_w32_init_return
    \/ \E rq \in GeoRequests : hist.calls < MaxGeoCalls /\ Submit("vo", rq)
    \/ wakeup_gui_thread("vo")
    \/ mp_dispatch_run_return("vo")
    \/ GetMessage_WM_USER
    \/ process_take
    \/ process_run
    \/ process_complete
    \/ process_return
    \/ \E p \in {<<9, 2>>} : hist.msgs < MaxGeoMsgs /\ WM_MOVE(p)
    \/ \E sz \in {<<7, 4>>} : hist.msgs < MaxGeoMsgs /\ WM_SIZE(sz)

SpecGeo == GeoInit /\ [][GeoNext]_vars

-----------------------------------------------------------------------------
(* Properties *)

InitOk == rdv = 1

TerminateItem == CHOOSE i \in DOMAIN items : items[i].fn = "do_terminate"

\* C1: once vo_w32_uninit has enqueued do_terminate, under fair scheduling the
\* terminate task runs, the GUI thread leaves run_message_loop and exits, and
\* pthread_join returns: vo_w32_uninit returns.
C1_UninitReturns ==
    UninitCalled ~> (TerminateDone /\ gui.pc = "exited"
                     /\ callers["vo"].pc = "uninit_done")

\* vo_w32_uninit has returned in a run where another thread's call was still
\* pending when it started and the window had been destroyed from outside
C1_Witness_PendingCall ==
    /\ callers["vo"].pc = "uninit_done"
    /\ \E i \in hist.pend : items[i].owner = "aux"
    /\ hist.msgs > 0

\* C2: when the GUI thread has exited, every task enqueued before the
\* terminate task has been executed (so its submitter is unblocked).
C2_DrainedBeforeExit ==
    (gui.pc = "exited" /\ InitOk) =>
        \A i \in DOMAIN items :
            (UninitCalled /\ i < TerminateItem) => items[i].completed

\* the GUI thread has exited and a task that was still pending when
\* do_terminate was enqueued has been executed
C2_Witness ==
    /\ gui.pc = "exited"
    /\ \E i \in hist.pend : items[i].completed /\ items[i].fn # "do_terminate"

C4_Fifo ==
    \A k \in 1..Len(hist.started) :
        \A i \in DOMAIN items :
            i < hist.started[k] => items[i].completed

\* two tasks of different threads were queued together and both have run
C4_Witness ==
    /\ Len(hist.started) >= 2
    /\ items[hist.started[1]].owner # items[hist.started[2]].owner
    /\ items[hist.started[2]].completed

\* C5 as claimed: no WndProc handler runs between the start and the end of a
\* task.
C5_Original == hist.nested = {}

\* C5 amended: during a task no other task and no handler of a message taken
\* from the message loop runs; the only handlers that run are those of the
\* messages the task's own calls send before they return: WM_DESTROY and
\* WM_NCDESTROY from DestroyWindow in do_terminate, WM_MOVE and WM_SIZE from
\* SetWindowPos in reinit_window_state.
C5_OnlyOwnSentMessages ==
    /\ hist.nested \subseteq
         ({"do_terminate"} \X {"WM_DESTROY", "WM_NCDESTROY"})
         \cup ({"do_control", "gui_thread_reconfig"} \X {"WM_MOVE", "WM_SIZE"})
    /\ gui.pc \in {"task", "ran"} =>
         /\ hist.started # <<>>
         /\ hist.started[Len(hist.started)] = gui.item
         /\ ~items[gui.item].completed

\* do_terminate has run and WndProc handled WM_DESTROY inside it
C5_Witness ==
    /\ <<"do_terminate", "WM_DESTROY">> \in hist.nested
    /\ w32.destroyed /\ w32.terminate

\* C6 as claimed: caller threads access the WindowState fields only through
\* a dispatched task or under the dispatch lock.
C6_Original == hist.raw = {}

\* C6 amended: caller threads never write the WindowState fields and read
\* them only in a dispatched task or under the dispatch lock, except for the
\* window handle, which vo_w32_hwnd and wakeup_gui_thread read without any
\* synchronization.
C6_OnlyHandleReadRaw ==
    hist.raw \subseteq (Callers \X {"window"} \X {"read"})

\* a caller has read the size under the dispatch lock and the handle without
C6_Witness ==
    /\ <<"aux", "dw", "read">> \in hist.locked
    /\ <<"vo", "window", "read">> \in hist.raw

\* C7: between a successful vo_w32_init and the start of vo_w32_uninit,
\* vo_w32_hwnd returns the same non-NULL handle every time.
C7_HandleImmutable == hist.hwnd_seen \subseteq {HWND}

\* the task the GUI thread has just run did this to the fullscreen state
JustRan(kind) == gui.pc = "ran" /\ hist.kind = kind

\* the round trip of a configured window: the task just run is the
\* VOCTRL_FULLSCREEN that leaves fullscreen, the task before it the
\* VOCTRL_FULLSCREEN that entered it
RoundTripDone ==
    gui.pc = "ran" /\ hist.rt.phase = "out" /\ w32.window_bounds_initialized

PreFsGeometry == [x |-> hist.rt.x, y |-> hist.rt.y, w |-> hist.rt.w, h |-> hist.rt.h]

\* the window with the pre-fullscreen client size (and the frame, when there is
\* one and fit_border is set) is no larger than the screen it is on when
\* fullscreen is left
FitsScreen ==
    LET framed == opts.border /\ opts.fit_border /\ sys.hwnd = "alive"
        b_w == IF framed THEN FrameBorders.l + FrameBorders.r ELSE 0
        b_h == IF framed THEN FrameBorders.t + FrameBorders.b ELSE 0
    IN  /\ hist.rt.w + b_w <= w32.screenrc.x1 - w32.screenrc.x0
        /\ hist.rt.h + b_h <= w32.screenrc.y1 - w32.screenrc.y0

\* C8 as claimed: entering fullscreen and leaving it, with nothing in between,
\* leaves (window_x, window_y, dw, dh) equal to their pre-fullscreen values,
\* whatever these were.
C8_Original == RoundTripDone => Geometry(w32) = PreFsGeometry

\* C8 amended: the round trip restores (window_x, window_y, dw, dh) exactly if
\* the restored window fits the screen it is on when fullscreen is left;
\* if it does not, the window is made smaller to fit.
C8_RestoredIfFits ==
    RoundTripDone =>
        IF FitsScreen
        THEN Geometry(w32) = PreFsGeometry
        ELSE /\ Geometry(w32) # PreFsGeometry
             /\ w32.dw <= hist.rt.w /\ w32.dh <= hist.rt.h

\* a configured window went through the round trip and has its geometry back
C8_Witness ==
    /\ RoundTripDone
    /\ FitsScreen
    /\ hist.rt.w > 0 /\ hist.rt.h > 0
    /\ Geometry(w32) = PreFsGeometry
    /\ <<w32.window_x, w32.window_y>> # <<w32.screenrc.x0, w32.screenrc.y0>>

\* C9: a reinit_window_state that finds the window fullscreen and
\* opts.fullscreen still true (VOCTRL_FULLSCREEN again, VOCTRL_ONTOP,
\* VOCTRL_BORDER) leaves prev_x, prev_y, prev_width, prev_height as they were.
C9_SnapshotKept ==
    JustRan("fs_reapply") =>
        /\ w32.prev_x = hist.pre.prev_x
        /\ w32.prev_y = hist.pre.prev_y
        /\ w32.prev_width = hist.pre.prev_width
        /\ w32.prev_height = hist.pre.prev_height

\* VOCTRL_BORDER or VOCTRL_ONTOP has run reinit_window_state on a fullscreen
\* window whose saved geometry differs from its fullscreen geometry
C9_Witness ==
    /\ JustRan("fs_reapply")
    /\ items[gui.item].request \in {"VOCTRL_BORDER", "VOCTRL_ONTOP"}
    /\ w32.window_bounds_initialized
    /\ w32.current_fs
    /\ <<w32.prev_x, w32.prev_y, w32.prev_width, w32.prev_height>>
         # <<w32.window_x, w32.window_y, w32.dw, w32.dh>>

\* the screen rectangle fullscreen takes: all monitors, the monitor the window
\* was on, or the monitor of the index (the primary one if there is none)
FsScreenRect ==
    IF opts.fsscreen_id = -2
    THEN [x0 |-> VirtualScreen.x, y0 |-> VirtualScreen.y,
          x1 |-> VirtualScreen.x + VirtualScreen.cx,
          y1 |-> VirtualScreen.y + VirtualScreen.cy]
    ELSE IF opts.fsscreen_id = -1 THEN Monitors[hist.pre.mon]
    ELSE IF opts.fsscreen_id \in 0..(Len(Monitors) - 1)
         THEN Monitors[opts.fsscreen_id + 1]
    ELSE Monitors[1]

\* C10: VOCTRL_FULLSCREEN with opts.fullscreen true on a windowed,
\* non-embedded window sets current_fs, stores the geometry it found in
\* prev_*, and sets the geometry to the screen rectangle.
C10_EnterFullscreen ==
    JustRan("fs_enter") =>
        /\ w32.current_fs
        /\ w32.prev_x = hist.pre.x /\ w32.prev_y = hist.pre.y
        /\ w32.prev_width = hist.pre.w /\ w32.prev_height = hist.pre.h
        /\ w32.window_x = FsScreenRect.x0 /\ w32.window_y = FsScreenRect.y0
        /\ w32.dw = FsScreenRect.x1 - FsScreenRect.x0
        /\ w32.dh = FsScreenRect.y1 - FsScreenRect.y0

\* a configured window has entered fullscreen on another monitor than its own
C10_Witness ==
    /\ JustRan("fs_enter")
    /\ w32.window_bounds_initialized
    /\ hist.pre.w > 0 /\ hist.pre.h > 0
    /\ FsScreenRect # Monitors[hist.pre.mon]

-----------------------------------------------------------------------------
(* The border conversions as functions: rectangles and styles from a bounded
   set, each conversion pair applied once *)

Rects ==
    [left : -MaxCoord..MaxCoord, top : -MaxCoord..MaxCoord,
     right : -MaxCoord..MaxCoord, bottom : -MaxCoord..MaxCoord]

\* a state in which no thread runs, holding the inputs p of the function tried
ProbeInit(w, s, p) ==
    /\ w32 = w
    /\ opts = DefaultOpts
    /\ vo = [dwidth |-> 0, dheight |-> 0, w32 |-> NULL]
    /\ sys = s
    /\ event_flags = {}
    /\ queue = <<>>
    /\ items = <<>>
    /\ interrupted = FALSE
    /\ gui = [pc |-> "unstarted", item |-> 0, from |-> "none"]
    /\ callers = [c \in Callers |-> [pc |-> "off", item |-> 0]]
    /\ rdv = -1
    /\ hist = [InitHist EXCEPT !.probe = p]

BordersInit ==
    \E st \in {"FRAME", "NOFRAME"}, rc \in Rects :
        ProbeInit(InitW32, [InitSys EXCEPT !.hwnd = "alive", !.style = st],
                  [fn |-> "input", rc |-> rc, out |-> rc])

\* subtract_window_borders(add_window_borders(rc))
borders_add_subtract ==
    /\ hist.probe.fn = "input"
    /\ hist' = [hist EXCEPT !.probe.fn = "add_subtract",
                            !.probe.out = subtract_window_borders(sys, add_window_borders(sys, hist.probe.rc))]
    /\ UNCHANGED <<w32, opts, vo, sys, event_flags, queue, items, interrupted,
                   gui, callers, rdv>>

\* add_window_borders(subtract_window_borders(rc))
borders_subtract_add ==
    /\ hist.probe.fn = "input"
    /\ hist' = [hist EXCEPT !.probe.fn = "subtract_add",
                            !.probe.out = add_window_borders(sys, subtract_window_borders(sys, hist.probe.rc))]
    /\ UNCHANGED <<w32, opts, vo, sys, event_flags, queue, items, interrupted,
                   gui, callers, rdv>>

BordersNext == borders_add_subtract \/ borders_subtract_add

SpecBorders == BordersInit /\ [][BordersNext]_vars

\* C11: for a fixed window style, taking the borders off a rectangle the
\* borders were added to gives the rectangle back, and so does adding them to
\* a rectangle they were taken off
C11_BorderRoundTrip ==
    hist.probe.fn \in {"add_subtract", "subtract_add"} => hist.probe.out = hist.probe.rc

C11_Witness ==
    /\ hist.probe.fn = "subtract_add"
    /\ sys.style = "FRAME"
    /\ hist.probe.rc.left < hist.probe.rc.right
    /\ hist.probe.rc.top < hist.probe.rc.bottom
    /\ add_window_borders(sys, hist.probe.rc) # hist.probe.rc
    /\ hist.probe.out = hist.probe.rc

-----------------------------------------------------------------------------
(* The fitting of oversized windows: configurations of several sizes, with
   and without a frame, under both fit-border settings *)

FitInputs == { [x0 |-> 1, y0 |-> 2, w |-> w, h |-> h] : w \in {3, 7, 13}, h \in {2, 5, 13} }

FitRequests ==
    { Rq("gui_thread_reconfig", "none", geo, NoSet) : geo \in FitInputs }
    \cup { Rq("do_control", "VOCTRL_BORDER", <<>>, [border |-> b]) : b \in BOOLEAN }

FitInit ==
    \E fb \in BOOLEAN, b \in BOOLEAN :
        InitWith([DefaultOpts EXCEPT !.fit_border = fb, !.border = b])

FitNext ==
    \/ vo_w32_init
    \/ gui_thread_create(TRUE)
    \/ vo_w32_init_return
    \/ \E rq \in FitRequests : hist.calls < MaxFitCalls /\ Submit("vo", rq)
    \/ wakeup_gui_thread("vo")
    \/ mp_dispatch_run_return("vo")
    \/ GetMessage_WM_USER
    \/ process_take
    \/ process_run
    \/ process_complete
    \/ process_return

SpecFit == FitInit /\ [][FitNext]_vars

Width(rc) == rc.right - rc.left
Height(rc) == rc.bottom - rc.top

\* the reinit_window_state just run, windowed, found the rectangle it tests (the
\* window rectangle with fit_border, the client rectangle without) larger
\* than the screen
Oversized ==
    /\ gui.pc = "ran"
    /\ hist.fit.ran
    /\ LET t == IF hist.fit.fit_border THEN hist.fit.r ELSE hist.fit.cr
       IN  Width(t) > hist.fit.screen_w \/ Height(t) > hist.fit.screen_h

\* C12 as stated: a requested window rectangle larger than the screen on an
\* axis is applied no larger than the screen on either axis, whatever
\* fit_border is
C12_Original ==
    (/\ gui.pc = "ran"
     /\ hist.fit.ran
     /\ \/ Width(hist.fit.r) > hist.fit.screen_w
        \/ Height(hist.fit.r) > hist.fit.screen_h)
    => /\ Width(hist.fit.applied) <= hist.fit.screen_w
       /\ Height(hist.fit.applied) <= hist.fit.screen_h

\* C12: when a windowed reinit_window_state finds an oversized rectangle,
\* with fit_border the window rectangle it applies is no larger than the
\* screen on either axis; without fit_border the client area of the applied
\* rectangle is (the frame may stick out)
C12_FittedToScreen ==
    Oversized =>
        /\ hist.fit.fitted
        /\ LET a == IF hist.fit.fit_border THEN hist.fit.applied
                    ELSE subtract_window_borders(sys, hist.fit.applied)
           IN  /\ Width(a) <= hist.fit.screen_w
               /\ Height(a) <= hist.fit.screen_h

C12_Witness ==
    /\ Oversized
    /\ ~hist.fit.fit_border
    /\ sys.style = "FRAME"
    /\ sys.wrect = hist.fit.applied
    /\ Width(hist.fit.applied) > hist.fit.screen_w
    /\ Width(subtract_window_borders(sys, hist.fit.applied)) = hist.fit.screen_w

Abs(n) == IF n < 0 THEN -n ELSE n

\* C13: when reinit_window_state letterboxes an oversized window, the center
\* of the rectangle it applies is within one pixel, on each axis, of the
\* center of the window rectangle asked for, and window_x/window_y are the
\* top left corner of the client area of the applied rectangle
C13_CenterKept ==
    (gui.pc = "ran" /\ hist.fit.ran /\ hist.fit.fitted) =>
        LET a == hist.fit.applied
            r == hist.fit.r
            c == subtract_window_borders(sys, a)
        IN  /\ Abs((a.left + a.right) - (r.left + r.right)) <= 2
            /\ Abs((a.top + a.bottom) - (r.top + r.bottom)) <= 2
            /\ w32.window_x = c.left
            /\ w32.window_y = c.top

C13_Witness ==
    /\ gui.pc = "ran"
    /\ hist.fit.ran /\ hist.fit.fitted
    /\ sys.style = "FRAME"
    /\ sys.wrect = hist.fit.applied
    /\ Width(hist.fit.applied) < Width(hist.fit.r)
    /\ Height(hist.fit.applied) < Height(hist.fit.r)
    /\ hist.fit.applied.left # hist.fit.r.left
    /\ w32.window_x = hist.fit.applied.left + FrameBorders.l
    /\ w32.window_y = hist.fit.applied.top + FrameBorders.t
    /\ w32.dw < hist.fit.cr.right - hist.fit.cr.left

-----------------------------------------------------------------------------
(* Keyboard input: a created window gets keyboard messages *)

VKeys == {"VK_SHIFT", "VK_CONTROL", "VK_MENU", "VK_LEFT", "VK_A",
          "VK_PACKET_D83D", "VK_PACKET_DE00"}

\* 0xd83d, 0xde00 (a surrogate pair), 0xdbff, 0xdfff (the last one), 'a',
\* carriage return
WChars == {55357, 56832, 56319, 57343, 97, 13}

KeyMessages ==
    { <<vkey, ext>> \in VKeys \X BOOLEAN : ext => vkey \in {"VK_CONTROL", "VK_MENU"} }

InputInit == \E b \in BOOLEAN : InitWith([DefaultOpts EXCEPT !.use_alt_gr = b])

InputNext ==
    \/ vo_w32_init
    \/ gui_thread_create(TRUE)
    \/ vo_w32_init_return
    \/ \E k \in KeyMessages : WM_KEYDOWN(k[1], k[2])
    \/ \E k \in KeyMessages : WM_KEYUP(k[1], k[2])
    \/ \E wc \in WChars : WM_CHAR(wc)
    \/ WM_KILLFOCUS

SpecInput == InputInit /\ [][InputNext]_vars

ReleaseAll == Key("MP_INPUT_RELEASE_ALL", 0, {}, FALSE)

\* C14: a key-up of a key other than bare Shift, Ctrl or Alt puts
\* MP_INPUT_RELEASE_ALL into the input sink whatever came before, after which
\* the sink holds no key down; a key-up of bare Shift, Ctrl or Alt puts nothing
C14_KeyUpReleasesAll ==
    hist.last.msg = "WM_KEYUP" =>
        IF hist.last.vkey \in {"VK_SHIFT", "VK_CONTROL", "VK_MENU"}
        THEN sys.keys = hist.last.keys
        ELSE /\ sys.keys = Append(hist.last.keys, ReleaseAll)
             /\ Pressed(sys.keys) = {}

C14_Witness ==
    /\ hist.last.msg = "WM_KEYUP"
    /\ hist.last.vkey = "VK_A"
    /\ Cardinality(Pressed(hist.last.keys)) = 2
    /\ Pressed(sys.keys) = {}

\* a WM_CHAR with a high surrogate arrived while none was pending
HighTaken ==
    /\ hist.last.msg = "WM_CHAR"
    /\ IS_HIGH_SURROGATE(hist.last.wc)
    /\ hist.last.high_surrogate = 0

\* the last two messages were WM_CHAR with a high surrogate, none pending
\* before it, and WM_CHAR with a low surrogate
PairTaken ==
    /\ hist.last.msg = "WM_CHAR"
    /\ IS_LOW_SURROGATE(hist.last.wc)
    /\ hist.last.prev_msg = "WM_CHAR"
    /\ IS_HIGH_SURROGATE(hist.last.prev_wc)
    /\ hist.last.prev_high_surrogate = 0

\* C15: with no surrogate pending, a WM_CHAR with a high surrogate h puts
\* nothing into the sink and stores h; the low surrogate l in the next
\* message puts exactly the code point 0x10000 + (((h & 0x3ff) << 10) |
\* (l & 0x3ff)) into the sink and leaves no surrogate pending
C15_SurrogatePair ==
    /\ HighTaken => /\ sys.keys = hist.last.keys
                    /\ w32.high_surrogate = hist.last.wc
    /\ PairTaken =>
          LET h == hist.last.prev_wc
              l == hist.last.wc
              hb == h - 55296
              lb == l - 56320
          IN  /\ hist.last.keys = hist.last.prev_keys
              /\ hist.last.high_surrogate = h
              /\ Len(sys.keys) = Len(hist.last.keys) + 1
              /\ sys.keys[Len(sys.keys)].name = "char"
              /\ sys.keys[Len(sys.keys)].code = 65536 + hb * 1024 + lb
              /\ ~sys.keys[Len(sys.keys)].down
              /\ SubSeq(sys.keys, 1, Len(hist.last.keys)) = hist.last.keys
              /\ w32.high_surrogate = 0
              /\ sys.errors = hist.last.errors

C15_Witness ==
    /\ PairTaken
    /\ hist.last.prev_wc = 55357
    /\ hist.last.wc = 56832
    /\ sys.keys[Len(sys.keys)].code = 128512
    /\ w32.high_surrogate = 0

\* C16: a low surrogate that arrives while no high surrogate is pending is
\* logged as an error, puts nothing into the input sink and leaves no
\* surrogate pending
C16_LoneLowSurrogate ==
    (/\ hist.last.msg = "WM_CHAR"
     /\ IS_LOW_SURROGATE(hist.last.wc)
     /\ hist.last.high_surrogate = 0)
    => /\ sys.errors = hist.last.errors + 1
       /\ sys.keys = hist.last.keys
       /\ w32.high_surrogate = 0

C16_Witness ==
    /\ hist.last.msg = "WM_CHAR"
    /\ hist.last.wc = 56832
    /\ hist.last.high_surrogate = 0
    /\ hist.last.prev_msg = "WM_CHAR"
    /\ hist.last.prev_wc = 97
    /\ sys.errors = 1
    /\ Len(sys.keys) = 1

-----------------------------------------------------------------------------
(* Control requests: implemented and unimplemented ones, before and after the
   first configuration, in a window of its own and embedded *)

CtlRequests ==
    { Rq("gui_thread_reconfig", "none", geo, NoSet) : geo \in GeoInputs }
    \cup { Rq("do_control", "VOCTRL_REDRAW_FRAME", <<>>, NoSet),
           Rq("do_control", "VOCTRL_GET_UNFS_WINDOW_SIZE", <<>>, NoSet),
           Rq("do_control", "VOCTRL_SET_UNFS_WINDOW_SIZE", <<2, 2>>, NoSet),
           Rq("do_control", "VOCTRL_SET_CURSOR_VISIBILITY", <<TRUE>>, NoSet),
           Rq("do_control", "VOCTRL_FULLSCREEN", <<>>, [fullscreen |-> TRUE]) }

CtlInit == \E wid \in {-1, 7} : InitWith([DefaultOpts EXCEPT !.WinID = wid])

CtlNext ==
    \/ vo_w32_init
    \/ gui_thread_create(TRUE)
    \/ vo_w32_init_return
    \/ \E rq \in CtlRequests : hist.calls < MaxGeoCalls /\ Submit("vo", rq)
    \/ wakeup_gui_thread("vo")
    \/ mp_dispatch_run_return("vo")
    \/ GetMessage_WM_USER
    \/ process_take
    \/ process_run
    \/ process_complete
    \/ process_return
    \/ \E sz \in {<<7, 4>>} : hist.msgs < MaxGeoMsgs /\ WM_SIZE(sz)

SpecCtl == CtlInit /\ [][CtlNext]_vars

\* the GUI thread has just run a control request of this kind
CtlRan(requests) == gui.pc = "ran" /\ hist.ctl.request \in requests

\* C17: a control request gui_thread_control has no case for returns
\* VO_NOTIMPL, leaves every field of the window state as it was (geometry,
\* prev_*, current_fs, cursor and screensaver flags,
\* window_bounds_initialized) and runs no reinit_window_state
C17_NotImplemented ==
    CtlRan({"VOCTRL_REDRAW_FRAME"}) =>
        /\ items[gui.item].ret = VO_NOTIMPL
        /\ items[gui.item].out = <<>>
        /\ w32 = hist.ctl.w
        \* the window too, whatever was posted to its queue meanwhile
        /\ [sys EXCEPT !.posted = 0] = [hist.ctl.s EXCEPT !.posted = 0]
        /\ ~hist.fit.called
        /\ hist.nested = {}

C17_Witness ==
    /\ CtlRan({"VOCTRL_REDRAW_FRAME"})
    /\ items[gui.item].ret = VO_NOTIMPL
    /\ w32.window_bounds_initialized
    /\ w32.current_fs
    /\ VO_EVENT_RESIZE \in hist.ctl.ev

\* C18: VOCTRL_GET_UNFS_WINDOW_SIZE and VOCTRL_SET_UNFS_WINDOW_SIZE before the
\* window bounds are initialized return VO_FALSE, write no size through the
\* argument, change neither the geometry nor prev_* and run no
\* reinit_window_state
C18_UnfsBeforeBounds ==
    (/\ CtlRan({"VOCTRL_GET_UNFS_WINDOW_SIZE", "VOCTRL_SET_UNFS_WINDOW_SIZE"})
     /\ ~hist.ctl.w.window_bounds_initialized)
    => /\ items[gui.item].ret = VO_FALSE
       /\ items[gui.item].out = <<>>
       /\ w32 = hist.ctl.w
       /\ sys.wrect = hist.ctl.s.wrect
       /\ ~hist.fit.called

C18_Witness ==
    /\ CtlRan({"VOCTRL_SET_UNFS_WINDOW_SIZE"})
    /\ ~hist.ctl.w.window_bounds_initialized
    /\ w32.parent = NULL
    /\ items[gui.item].ret = VO_FALSE
    /\ hist.ctl.arg = <<2, 2>>
    /\ w32.dw # 2

-----------------------------------------------------------------------------
(* Event flags: window messages signal them on the GUI thread while two
   threads poll them or have a control request drain them *)

PollRequests ==
    { Rq("cb", "none", <<>>, NoSet),
      Rq("do_control", "VOCTRL_REDRAW_FRAME", <<>>, NoSet) }

PollNext ==
    \/ vo_w32_init
    \/ gui_thread_create(TRUE)
    \/ vo_w32_init_return
    \/ \E c \in Callers, rq \in PollRequests : hist.calls < MaxCalls /\ Submit(c, rq)
    \/ \E c \in Callers : wakeup_gui_thread(c)
    \/ \E c \in Callers : mp_dispatch_run_return(c)
    \/ \E c \in Callers : check_events(c)
    \/ \E c \in Callers : mp_dispatch_lock(c)
    \/ \E c \in Callers : check_events_locked(c)
    \/ GetMessage_WM_USER
    \/ process_take
    \/ process_run
    \/ process_complete
    \/ process_return
    \/ \E p \in {<<9, 2>>} : WM_MOVE(p)
    \/ \E sz \in {<<7, 4>>} : WM_SIZE(sz)

SpecPoll == InitWith(DefaultOpts) /\ [][PollNext]_vars

\* C20: under every interleaving of signal_events with the drains of
\* VOCTRL_CHECK_EVENTS and do_control, the flags in event_flags are exactly
\* those signalled since they were last returned by a drain (none is lost),
\* and no drain returns a flag that was not signalled since then (none is
\* returned twice)
C20_FlagsExact ==
    /\ event_flags = hist.unread
    /\ ~hist.dup

\* WM_SIZE, a poll that drained its flags and copied the size, WM_MOVE, and
\* a control request whose drain got the flag of WM_MOVE only
C20_Witness ==
    /\ event_flags = {}
    /\ hist.msgs = 2
    /\ hist.calls = 2
    /\ Len(items) = 1
    /\ items[1].request = "VOCTRL_REDRAW_FRAME"
    /\ items[1].completed
    /\ items[1].events = {VO_EVENT_WIN_STATE}
    /\ vo.dwidth = 7

-----------------------------------------------------------------------------
(* Requests that re-apply the window state, in a window of its own and embedded *)

ReinitRequests ==
    { Rq("gui_thread_reconfig", "none", geo, NoSet) : geo \in GeoInputs }
    \cup { Rq("do_control", "VOCTRL_FULLSCREEN", <<>>, [fullscreen |-> b]) : b \in BOOLEAN }
    \cup { Rq("do_control", "VOCTRL_BORDER", <<>>, [border |-> FALSE]),
           Rq("do_control", "VOCTRL_ONTOP", <<>>, [ontop |-> TRUE]),
           Rq("do_control", "VOCTRL_SET_UNFS_WINDOW_SIZE", <<2, 2>>, NoSet),
           Rq("do_control", "VOCTRL_SET_UNFS_WINDOW_SIZE", <<9, 3>>, NoSet),
           Rq("do_control", "VOCTRL_GET_UNFS_WINDOW_SIZE", <<>>, NoSet) }

\* the window with or without a parent, started windowed or fullscreen
ReinitInit ==
    \E wid \in {-1, 7}, fs \in BOOLEAN :
        InitWith([DefaultOpts EXCEPT !.WinID = wid, !.fullscreen = fs])

ReinitNext ==
    \/ vo_w32_init
    \/ gui_thread_create(TRUE)
    \/ vo_w32_init_return
    \/ \E rq \in ReinitRequests : hist.calls < MaxGeoCalls /\ Submit("vo", rq)
    \/ wakeup_gui_thread("vo")
    \/ mp_dispatch_run_return("vo")
    \/ GetMessage_WM_USER
    \/ process_take
    \/ process_run
    \/ process_complete
    \/ process_return

SpecReinit == ReinitInit /\ [][ReinitNext]_vars

\* the GUI thread has just run, with success, a control request that
\* re-applies the window state
ReappliedOk ==
    /\ CtlRan({"VOCTRL_FULLSCREEN", "VOCTRL_ONTOP", "VOCTRL_BORDER",
               "VOCTRL_SET_UNFS_WINDOW_SIZE"})
    /\ hist.ctl.request = "VOCTRL_FULLSCREEN" => opts.fullscreen # hist.ctl.w.current_fs
    /\ items[gui.item].ret = VO_TRUE

\* C21 as stated: every such request hands VO_EVENT_RESIZE to its caller
C21_Original ==
    ReappliedOk => VO_EVENT_RESIZE \in items[gui.item].events

\* C21: in a window of its own (no parent), a VOCTRL_FULLSCREEN that toggles
\* the mode, VOCTRL_ONTOP, VOCTRL_BORDER and a successful
\* VOCTRL_SET_UNFS_WINDOW_SIZE run reinit_window_state to its end, and the
\* events handed to the caller of that call contain VO_EVENT_RESIZE; in an
\* embedded window reinit_window_state returns at once and signals nothing
C21_ResizeReturned ==
    ReappliedOk =>
        /\ hist.fit.called
        /\ IF hist.ctl.w.parent = NULL
           THEN VO_EVENT_RESIZE \in items[gui.item].events
           ELSE /\ items[gui.item].events = hist.ctl.ev
                /\ w32 = hist.ctl.w

C21_Witness ==
    /\ ReappliedOk
    /\ hist.ctl.request = "VOCTRL_ONTOP"
    /\ hist.ctl.w.parent = NULL
    /\ hist.ctl.ev = {}
    /\ w32.window_bounds_initialized
    /\ items[gui.item].events = {VO_EVENT_RESIZE}
    /\ event_flags = {}

-----------------------------------------------------------------------------
(* The start of the GUI thread *)

\* C22: the GUI thread calls mp_rendezvous once, on the success and on the
\* failure path alike, before it goes on; the value it passes is 1 exactly if
\* the window was created; vo_w32_init returns only after that call, and
\* returns 1 exactly if the value is 1
C22_BarrierOnce ==
    /\ hist.init.rendezvous = (IF gui.pc \in {"unstarted", "create"} THEN 0 ELSE 1)
    /\ (rdv = -1) = (hist.init.rendezvous = 0)
    /\ rdv # -1 => ((rdv = 1) = (sys.hwnd # "none"))
    /\ hist.init.ret # -1 => rdv # -1 /\ hist.init.ret = rdv
    /\ callers["vo"].pc \notin {"start", "rendezvous"} => hist.init.ret # -1

C22_Witness ==
    /\ hist.init.ret = 1
    /\ hist.init.rendezvous = 1
    /\ w32.window = HWND
    /\ callers["vo"].pc = "idle"

\* C23: if the window could not be created the GUI thread handles no message
\* and runs no task, and ends; vo_w32_init returns only once the thread has
\* ended, with 0 and with vo->w32 cleared, and nothing is called afterwards
C23_FailedInit ==
    rdv = 0 =>
        /\ gui.pc \in {"cleanup", "exited"}
        /\ w32.window = NULL /\ sys.hwnd = "none" /\ sys.destroy_calls = 0
        /\ hist.msgs = 0 /\ items = <<>>
        /\ callers["vo"].pc \in {"rendezvous", "init_failed"}
        /\ callers["vo"].pc = "init_failed" =>
               gui.pc = "exited" /\ vo.w32 = NULL /\ hist.init.ret = 0
        /\ callers["vo"].pc = "rendezvous" => vo.w32 # NULL /\ hist.init.ret = -1

C23_Witness ==
    /\ rdv = 0
    /\ callers["vo"].pc = "init_failed"
    /\ gui.pc = "exited"
    /\ vo.w32 = NULL
    /\ hist.init.ret = 0

-----------------------------------------------------------------------------
(* The GUI thread after the window is gone *)

\* C24: once the window has been destroyed and as long as vo_w32_uninit has
\* not been called, a thread that is inside a synchronous call (its item
\* queued, the GUI thread woken or not) gets the item executed and returns
C24_ServedAfterDestroy ==
    \A c \in Callers :
        (w32.destroyed /\ ~UninitCalled /\ callers[c].pc \in {"wakeup", "wait"})
            ~> /\ callers[c].pc = "idle"
               /\ callers[c].item \in DOMAIN items
               /\ items[callers[c].item].completed

\* a control call issued after the destruction has been run from the second
\* loop of run_message_loop, no termination being requested
C24_Witness ==
    /\ w32.destroyed /\ ~w32.terminate /\ ~UninitCalled
    /\ gui.pc = "ran" /\ gui.from = "fallback"
    /\ items[gui.item].fn = "gui_thread_reconfig"
    /\ callers[items[gui.item].owner].pc = "wait"
    /\ sys.posted = 0

\* C25: once the window has been created, the GUI thread is past
\* run_message_loop (in its cleanup or ended) only with terminate set, that
\* is after do_terminate has run, whenever the message loop ended
C25_ExitOnlyTerminated ==
    (rdv = 1 /\ gui.pc \in {"cleanup", "exited"}) =>
        /\ w32.terminate
        /\ \E i \in DOMAIN items :
               items[i].fn = "do_terminate" /\ i \in {hist.started[k] : k \in DOMAIN hist.started}

\* the thread has ended in a run where the message loop had ended before
\* vo_w32_uninit was called
C25_Witness ==
    /\ rdv = 1 /\ gui.pc = "exited"
    /\ w32.terminate
    /\ hist.msgs > 0
    /\ \E i \in hist.pend : items[i].fn # "do_terminate"

-----------------------------------------------------------------------------
(* The destruction of the window *)

\* C26: whenever destroyed is set, w32->window is NULL
C26_WindowCleared == w32.destroyed => w32.window = NULL

\* C27: DestroyWindow is called only while destroyed is not set and at most
\* once in the life of the GUI thread (by do_terminate or by the cleanup);
\* the destroy handler revokes drag-and-drop and posts the quit message only
\* while destroyed is not set, so at most once, whichever of WM_DESTROY and
\* WM_NCDESTROY arrive
C27_DestroyedOnce ==
    [][/\ sys'.destroy_calls # sys.destroy_calls =>
              ~w32.destroyed /\ sys.destroy_calls = 0 /\ sys'.destroy_calls = 1
       /\ sys'.revoked # sys.revoked =>
              ~w32.destroyed /\ sys.revoked = 0 /\ sys'.revoked = 1 /\ ~sys.quit
       /\ sys'.quit # sys.quit => sys'.revoked # sys.revoked]_vars

\* the thread has ended after do_terminate destroyed the window: both
\* WM_DESTROY and WM_NCDESTROY were handled, and the cleanup found the handle
\* that the second of them had stored again
C27_Witness ==
    /\ gui.pc = "exited"
    /\ w32.terminate /\ w32.destroyed /\ w32.window = HWND
    /\ sys.destroy_calls = 1 /\ sys.revoked = 1 /\ sys.quit
    /\ sys.keys = <<>>

-----------------------------------------------------------------------------
(* Keyboard input: broken surrogate sequences *)

LastKey == sys.keys[Len(sys.keys)]

\* the last message put exactly one key into the sink
OneKeyPut ==
    /\ Len(sys.keys) = Len(hist.last.keys) + 1
    /\ SubSeq(sys.keys, 1, Len(hist.last.keys)) = hist.last.keys

\* C28: a WM_CHAR with a character that is no surrogate, arriving while a
\* high surrogate is pending, logs an error, puts nothing into the sink and
\* leaves no surrogate pending; a printable character in the message after
\* it is put into the sink as it is, and a high surrogate followed by a low
\* surrogate in the two messages after it give the code point of the pair
C28_BrokenPair ==
    /\ hist.last.broken = 0 =>
          /\ sys.errors = hist.last.errors + 1
          /\ sys.keys = hist.last.keys
          /\ w32.high_surrogate = 0
    /\ (/\ hist.last.broken = 1
        /\ hist.last.msg = "WM_CHAR"
        /\ ~IS_HIGH_SURROGATE(hist.last.wc) /\ ~IS_LOW_SURROGATE(hist.last.wc)
        /\ hist.last.wc >= 32) =>
          /\ OneKeyPut
          /\ LastKey.name = "char" /\ LastKey.code = hist.last.wc
          /\ sys.errors = hist.last.errors
          /\ w32.high_surrogate = 0
    /\ (/\ hist.last.broken = 2
        /\ hist.last.msg = "WM_CHAR" /\ IS_LOW_SURROGATE(hist.last.wc)
        /\ hist.last.prev_msg = "WM_CHAR" /\ IS_HIGH_SURROGATE(hist.last.prev_wc)) =>
          /\ OneKeyPut
          /\ LastKey.name = "char"
          /\ LastKey.code = 65536 + (hist.last.prev_wc - 55296) * 1024
                                  + (hist.last.wc - 56320)
          /\ sys.errors = hist.last.errors
          /\ w32.high_surrogate = 0

\* 0xd83d, 'a', 0xd83d, 0xde00: one error, and U+1F600 the only key
C28_Witness ==
    /\ hist.last.broken = 2
    /\ hist.last.msg = "WM_CHAR" /\ hist.last.wc = 56832
    /\ hist.last.prev_msg = "WM_CHAR" /\ hist.last.prev_wc = 55357
    /\ sys.errors = 1
    /\ Len(sys.keys) = 1
    /\ LastKey.code = 128512

\* C29: after WM_KILLFOCUS no high surrogate is pending, and a low surrogate
\* in the message after it puts nothing into the sink
C29_ResetOnFocusLoss ==
    /\ hist.last.msg = "WM_KILLFOCUS" => w32.high_surrogate = 0
    /\ (/\ hist.last.msg = "WM_CHAR" /\ IS_LOW_SURROGATE(hist.last.wc)
        /\ hist.last.prev_msg = "WM_KILLFOCUS") => ~OneKeyPut

-----------------------------------------------------------------------------
(* The size of the window when not fullscreen *)

\* the item the GUI thread ran before the one it has just run
PrevItem == items[hist.started[Len(hist.started) - 1]]

\* VOCTRL_GET_UNFS_WINDOW_SIZE has just run, right after a successful
\* VOCTRL_SET_UNFS_WINDOW_SIZE
SetThenGot == gui.pc = "ran" /\ hist.unfs.phase = "got"

\* VOCTRL_SET_UNFS_WINDOW_SIZE has just run, with success, in fullscreen
SetInFullscreen ==
    /\ CtlRan({"VOCTRL_SET_UNFS_WINDOW_SIZE"})
    /\ items[gui.item].ret = VO_TRUE
    /\ hist.ctl.w.current_fs /\ w32.current_fs

FsUnchanged ==
    /\ Geometry(w32) = Geometry(hist.ctl.w)
    /\ sys.wrect = hist.ctl.s.wrect
    /\ w32.prev_width = hist.ctl.arg[1] /\ w32.prev_height = hist.ctl.arg[2]

\* C30 as stated: the get that follows a set answers the size that was set
C30_Original ==
    /\ SetThenGot => items[gui.item].ret = VO_TRUE /\ items[gui.item].out = PrevItem.arg
    /\ SetInFullscreen => FsUnchanged

\* C30: with the bounds initialized, VOCTRL_GET_UNFS_WINDOW_SIZE right after
\* VOCTRL_SET_UNFS_WINDOW_SIZE(w, h) answers (w, h), in fullscreen always and
\* windowed unless the set made the window larger than the screen: then it
\* answers the size the window was shrunk to, no larger than (w, h) on either
\* axis and smaller on one. In fullscreen the set writes prev_* only
C30_UnfsRoundTrip ==
    /\ SetThenGot =>
          /\ items[gui.item].ret = VO_TRUE
          /\ IF hist.unfs.fitted
             THEN /\ ~w32.current_fs
                  /\ items[gui.item].out # PrevItem.arg
                  /\ items[gui.item].out[1] <= PrevItem.arg[1]
                  /\ items[gui.item].out[2] <= PrevItem.arg[2]
             ELSE items[gui.item].out = PrevItem.arg
    /\ SetInFullscreen => FsUnchanged

\* a get right after a set in fullscreen answered the size set, which is
\* not the size the window has
C30_Witness ==
    /\ SetThenGot
    /\ w32.current_fs
    /\ PrevItem.request = "VOCTRL_SET_UNFS_WINDOW_SIZE"
    /\ PrevItem.arg = <<2, 2>>
    /\ items[gui.item].out = <<2, 2>>
    /\ w32.dw = 8 /\ w32.dh = 6

-----------------------------------------------------------------------------
(* Interactive resize: the user drags the border of the window *)

WMSZ ==
    {"WMSZ_LEFT", "WMSZ_RIGHT", "WMSZ_TOP", "WMSZ_TOPLEFT", "WMSZ_TOPRIGHT",
     "WMSZ_BOTTOM", "WMSZ_BOTTOMLEFT", "WMSZ_BOTTOMRIGHT"}

\* the window rectangles proposed by the drag
SizingRects ==
    { [left |-> 1, top |-> 1, right |-> r, bottom |-> b] : r \in {7, 12}, b \in {5, 10} }

\* video sizes 6x3 and 3x2
SizingRequests ==
    { Rq("gui_thread_reconfig", "none", [x0 |-> 1, y0 |-> 2, w |-> 6, h |-> 3], NoSet),
      Rq("gui_thread_reconfig", "none", [x0 |-> 1, y0 |-> 2, w |-> 3, h |-> 2], NoSet),
      Rq("do_control", "VOCTRL_FULLSCREEN", <<>>, [fullscreen |-> TRUE]),
      Rq("do_control", "VOCTRL_ONTOP", <<>>, [ontop |-> TRUE]) }

SizingInit ==
    \E wid \in {-1, 7}, k \in {<<TRUE, TRUE>>, <<TRUE, FALSE>>, <<FALSE, TRUE>>} :
        InitWith([DefaultOpts EXCEPT !.WinID = wid, !.keepaspect = k[1],
                                     !.keepaspect_window = k[2]])

SizingNext ==
    \/ vo_w32_init
    \/ gui_thread_create(TRUE)
    \/ vo_w32_init_return
    \/ \E rq \in SizingRequests : hist.calls < MaxSizingCalls /\ Submit("vo", rq)
    \/ wakeup_gui_thread("vo")
    \/ mp_dispatch_run_return("vo")
    \/ GetMessage_WM_USER
    \/ process_take
    \/ process_run
    \/ process_complete
    \/ process_return
    \/ \E edge \in WMSZ, rc \in SizingRects : WM_SIZING(edge, rc)

SpecSizing == SizingInit /\ [][SizingNext]_vars

\* WM_SIZING has just been handled
Sized == hist.probe.fn = "WM_SIZING"

AspectLocked ==
    opts.keepaspect /\ opts.keepaspect_window /\ ~w32.current_fs /\ w32.parent = NULL

Edges(rc) == <<rc.left, rc.top, rc.right, rc.bottom>>

\* the edge the table gives for the dragged edge or corner (1=left .. 4=bottom)
TableEdge(edge) ==
    IF edge \in {"WMSZ_LEFT", "WMSZ_RIGHT", "WMSZ_BOTTOMLEFT", "WMSZ_BOTTOMRIGHT"} THEN 4
    ELSE IF edge \in {"WMSZ_TOP", "WMSZ_BOTTOM"} THEN 3
    ELSE 2

\* C31: an aspect-locked WM_SIZING (keepaspect and keepaspect_window set,
\* not fullscreen, no parent, a video size configured) is answered with the
\* proposed rectangle changed on no edge but the one the table gives for the
\* dragged edge or corner, and the client size of the answer is within one
\* pixel of the video aspect on the adjusted axis; otherwise the message is
\* left unanswered and the rectangle is as proposed
C31_AspectLockedResize ==
    Sized =>
        IF AspectLocked
        THEN /\ hist.probe.ret
             /\ \A i \in 1..4 :
                    i # TableEdge(hist.probe.edge) =>
                        Edges(hist.probe.out)[i] = Edges(hist.probe.rc)[i]
             /\ w32.o_dwidth > 0 =>
                    LET c == subtract_window_borders(sys, hist.probe.out)
                        c_w == c.right - c.left
                        c_h == c.bottom - c.top
                    IN  IF TableEdge(hist.probe.edge) = 3
                        THEN Abs(c_w * w32.o_dheight - c_h * w32.o_dwidth) < w32.o_dheight
                        ELSE Abs(c_h * w32.o_dwidth - c_w * w32.o_dheight) < w32.o_dwidth
        ELSE ~hist.probe.ret /\ hist.probe.out = hist.probe.rc

\* the top-left corner of a 3x2 video's window was dragged to (1,1)-(7,10),
\* a client area of 4x6: the top edge was moved to 4, the client area is 4x3
C31_Witness ==
    /\ Sized /\ AspectLocked
    /\ w32.o_dwidth = 3 /\ w32.o_dheight = 2
    /\ hist.probe.edge = "WMSZ_TOPLEFT"
    /\ hist.probe.rc = [left |-> 1, top |-> 1, right |-> 7, bottom |-> 10]
    /\ hist.probe.out = [left |-> 1, top |-> 4, right |-> 7, bottom |-> 10]

\* the same message left alone because the window is fullscreen
C31_Witness_Fullscreen ==
    /\ Sized /\ w32.current_fs /\ w32.parent = NULL
    /\ opts.keepaspect /\ opts.keepaspect_window
    /\ hist.probe.out = hist.probe.rc

-----------------------------------------------------------------------------
(* Keyboard input: the character of a key-down *)

\* the last message was a first (not repeated) WM_KEYDOWN of a key that
\* mp_w32_vkey_to_mpkey has no entry for
KeyDownDecoded ==
    /\ hist.last.msg = "WM_KEYDOWN"
    /\ sys.kbd # hist.last.kbd
    /\ mp_w32_vkey_to_mpkey(hist.last.vkey, FALSE) = "none"

\* the keyboard state decode_key starts from: AltGr (LCONTROL + RMENU) taken
\* out unless mp_input_use_alt_gr
DecodeKeys ==
    LET k == GetKeyboardState(sys)
    IN  IF "VK_RMENU" \in k /\ "VK_LCONTROL" \in k /\ ~opts.use_alt_gr
        THEN GetKeyboardState([sys EXCEPT !.kbd = @ \ {"VK_RMENU", "VK_LCONTROL"}])
        ELSE k

NoAlt(k) == k \ {"VK_LMENU", "VK_RMENU", "VK_MENU"}
NoCtrl(k) == k \ {"VK_LCONTROL", "VK_RCONTROL", "VK_CONTROL"}

\* the attempts in their order: as it is, without Alt if Alt is down, without
\* Ctrl (and Alt) if Ctrl is down
Attempts ==
    <<DecodeKeys>>
    \o (IF "VK_MENU" \in DecodeKeys THEN <<NoAlt(DecodeKeys)>> ELSE <<>>)
    \o (IF "VK_CONTROL" \in DecodeKeys THEN <<NoCtrl(NoAlt(DecodeKeys))>> ELSE <<>>)

\* the result of the first attempt that gives a character >= 0x20, else 0
FirstPrintable ==
    LET ok == {i \in DOMAIN Attempts : ToUnicode(hist.last.vkey, Attempts[i]) >= 32}
    IN  IF ok = {} THEN 0
        ELSE ToUnicode(hist.last.vkey, Attempts[CHOOSE i \in ok : \A j \in ok : i <= j])

\* C32: a first key-down of a key without a direct mapping puts into the sink
\* the first character >= 0x20 among the layout decodings as it is, with Alt
\* cleared (if Alt is down) and with Ctrl cleared (if Ctrl is down), with
\* MP_KEY_STATE_DOWN; if there is none nothing is put and the decoder state
\* is as before; a character that is a surrogate, or that finds a high
\* surrogate pending, changes high_surrogate, the error count and the sink
\* as the same code unit in a WM_CHAR does
C32_KeyDownFallback ==
    KeyDownDecoded =>
        LET c == FirstPrintable
            hs == hist.last.high_surrogate
        IN  IF c = 0
            THEN /\ sys.keys = hist.last.keys
                 /\ w32.high_surrogate = hs
                 /\ sys.errors = hist.last.errors
            ELSE IF IS_HIGH_SURROGATE(c)
            THEN /\ sys.keys = hist.last.keys
                 /\ w32.high_surrogate = c
                 /\ sys.errors = hist.last.errors
            ELSE IF IS_LOW_SURROGATE(c) /\ hs # 0
            THEN /\ OneKeyPut
                 /\ LastKey.name = "char" /\ LastKey.down
                 /\ LastKey.code = 65536 + (hs - 55296) * 1024 + (c - 56320)
                 /\ w32.high_surrogate = 0
                 /\ sys.errors = hist.last.errors
            ELSE IF IS_LOW_SURROGATE(c) \/ hs # 0
            THEN /\ sys.keys = hist.last.keys
                 /\ w32.high_surrogate = 0
                 /\ sys.errors = hist.last.errors + 1
            ELSE /\ OneKeyPut
                 /\ LastKey.name = "char" /\ LastKey.down /\ LastKey.code = c
                 /\ w32.high_surrogate = 0
                 /\ sys.errors = hist.last.errors

\* Ctrl+Alt+A: nothing as it is, a control character without Alt, 'a'
\* without Ctrl
C32_Witness ==
    /\ KeyDownDecoded
    /\ hist.last.vkey = "VK_A"
    /\ sys.kbd = {"VK_LCONTROL", "VK_LMENU", "VK_A"}
    /\ Len(Attempts) = 3
    /\ ToUnicode("VK_A", Attempts[1]) = 0
    /\ ToUnicode("VK_A", Attempts[2]) = 1
    /\ OneKeyPut /\ LastKey.code = 97 /\ LastKey.down

\* a high surrogate from VK_PACKET completed by a low surrogate in WM_CHAR
C32_Witness_Surrogate ==
    /\ hist.last.msg = "WM_CHAR" /\ hist.last.wc = 56832
    /\ hist.last.prev_msg = "WM_KEYDOWN"
    /\ hist.last.high_surrogate = 55357
    /\ hist.last.prev_high_surrogate = 0
    /\ OneKeyPut /\ LastKey.code = 128512

-----------------------------------------------------------------------------
(* The embedded window *)

Embedded == w32.parent # NULL

\* C33: in an embedded window current_fs and window_bounds_initialized stay
\* false and prev_x, prev_y, prev_width, prev_height stay as initialized,
\* whatever request or reconfiguration runs; VOCTRL_GET_UNFS_WINDOW_SIZE and
\* VOCTRL_SET_UNFS_WINDOW_SIZE return VO_FALSE; a task that calls
\* reinit_window_state signals no event
C33_EmbeddedNoGeometry ==
    Embedded =>
        /\ ~w32.current_fs
        /\ ~w32.window_bounds_initialized
        /\ w32.prev_x = InitW32.prev_x /\ w32.prev_y = InitW32.prev_y
        /\ w32.prev_width = InitW32.prev_width /\ w32.prev_height = InitW32.prev_height
        /\ CtlRan({"VOCTRL_GET_UNFS_WINDOW_SIZE", "VOCTRL_SET_UNFS_WINDOW_SIZE"}) =>
               items[gui.item].ret = VO_FALSE /\ ~hist.fit.called
        /\ (gui.pc = "ran" /\ hist.fit.called) =>
               /\ ~hist.fit.ran
               /\ IF items[gui.item].fn = "do_control"
                  THEN items[gui.item].events = hist.ctl.ev /\ event_flags = {}
                  ELSE event_flags = hist.ctl.ev

\* an embedded window was asked to go fullscreen after a first
\* reconfiguration: the request returned success and nothing changed
C33_Witness ==
    /\ Embedded
    /\ CtlRan({"VOCTRL_FULLSCREEN"})
    /\ opts.fullscreen
    /\ items[gui.item].ret = VO_TRUE
    /\ hist.fit.called
    /\ w32.o_dwidth # 0
    /\ w32 = hist.ctl.w

-----------------------------------------------------------------------------
(* The saved windowed geometry *)

\* One caller thread reconfigures the window for two content sizes, switches
\* fullscreen on and off, sets ontop and sets the windowed size;
\* the user moves and resizes the window. The window has a parent or not.
SavedRequests ==
    { Rq("gui_thread_reconfig", "none", [x0 |-> 5, y0 |-> 2, w |-> 6, h |-> 3], NoSet),
      Rq("gui_thread_reconfig", "none", [x0 |-> 5, y0 |-> 2, w |-> 3, h |-> 2], NoSet),
      Rq("do_control", "VOCTRL_ONTOP", <<>>, [ontop |-> TRUE]),
      Rq("do_control", "VOCTRL_SET_UNFS_WINDOW_SIZE", <<2, 2>>, NoSet) }
    \cup { Rq("do_control", "VOCTRL_FULLSCREEN", <<>>, [fullscreen |-> b]) : b \in BOOLEAN }

SavedInit == \E wid \in {-1, 7} : InitWith([DefaultOpts EXCEPT !.WinID = wid])

SavedNext ==
    \/ vo_w32_init
    \/ gui_thread_create(TRUE)
    \/ vo_w32_init_return
    \/ \E rq \in SavedRequests : hist.calls < MaxGeoCalls /\ Submit("vo", rq)
    \/ wakeup_gui_thread("vo")
    \/ mp_dispatch_run_return("vo")
    \/ GetMessage_WM_USER
    \/ process_take
    \/ process_run
    \/ process_complete
    \/ process_return
    \/ \E p \in {<<9, 2>>} : hist.msgs < MaxGeoMsgs /\ WM_MOVE(p)
    \/ \E sz \in {<<7, 4>>} : hist.msgs < MaxGeoMsgs /\ WM_SIZE(sz)

SpecSaved == SavedInit /\ [][SavedNext]_vars

PrevSaved(w) == <<w.prev_x, w.prev_y, w.prev_width, w.prev_height>>

\* the step switches to fullscreen
EntersFs == ~w32.current_fs /\ w32'.current_fs

\* the step is the reconfiguration that initializes the window bounds
InitsBounds == ~w32.window_bounds_initialized /\ w32'.window_bounds_initialized

\* the step runs the dispatched task it
Runs(fn, request) ==
    /\ gui.pc = "task" /\ gui'.pc = "ran"
    /\ items[gui.item].fn = fn /\ items[gui.item].request = request

C34_Witness_Reconfig ==
    /\ gui.pc = "ran" /\ items[gui.item].fn = "gui_thread_reconfig"
    /\ hist.ctl.w.window_bounds_initialized
    /\ ~hist.ctl.w.current_fs /\ ~w32.current_fs
    /\ PrevSaved(w32) # PrevSaved(hist.ctl.w)

-----------------------------------------------------------------------------
(* The fullscreen geometry *)

\* the window of its own covers the screen rectangle
CoversScreen ==
    /\ w32.window_x = w32.screenrc.x0 /\ w32.window_y = w32.screenrc.y0
    /\ w32.dw = w32.screenrc.x1 - w32.screenrc.x0
    /\ w32.dh = w32.screenrc.y1 - w32.screenrc.y0

\* the GUI thread has just run a reconfiguration or a control request
TaskRan ==
    /\ gui.pc = "ran"
    /\ items[gui.item].fn \in {"gui_thread_reconfig", "do_control"}

\* C35 as stated: whenever a reconfiguration or a control request of a window
\* of its own completes with current_fs set, (window_x, window_y, dw, dh) is
\* the origin and size of the screen rectangle
C35_Original ==
    (TaskRan /\ w32.parent = NULL /\ w32.current_fs) => CoversScreen

\* C35: whenever a reconfiguration or a control request of a window of its
\* own that runs reinit_window_state completes with current_fs set,
\* (window_x, window_y, dw, dh) is the origin and size of the screen
\* rectangle, also when the task was a reconfiguration for a new content size
\* or a VOCTRL_SET_UNFS_WINDOW_SIZE in fullscreen and when WM_MOVE or WM_SIZE
\* had changed the fields before; a task that does not run
\* reinit_window_state leaves the four fields as the window messages left them
C35_FullscreenGeometry ==
    (TaskRan /\ w32.parent = NULL) =>
        /\ (w32.current_fs /\ hist.fit.called) => CoversScreen
        /\ ~hist.fit.called => Geometry(w32) = Geometry(hist.ctl.w)

\* a reconfiguration for a new content size ran in fullscreen
C35_Witness ==
    /\ TaskRan /\ items[gui.item].fn = "gui_thread_reconfig"
    /\ w32.parent = NULL /\ hist.ctl.w.current_fs /\ w32.current_fs
    /\ hist.ctl.w.window_bounds_initialized
    /\ w32.o_dwidth # hist.ctl.w.o_dwidth
    /\ CoversScreen /\ w32.dw # w32.o_dwidth

\* VOCTRL_SET_UNFS_WINDOW_SIZE ran in fullscreen after WM_MOVE had moved the
\* window
C35_Witness_Moved ==
    /\ CtlRan({"VOCTRL_SET_UNFS_WINDOW_SIZE"}) /\ items[gui.item].ret = VO_TRUE
    /\ hist.ctl.w.current_fs /\ w32.current_fs
    /\ Geometry(hist.ctl.w) # Geometry(w32)
    /\ CoversScreen

-----------------------------------------------------------------------------
(* The close-window key *)

\* how many MP_KEY_CLOSE_WIN the input context was given
CloseKeys(s) ==
    Cardinality({i \in DOMAIN s.keys : s.keys[i].name = "MP_KEY_CLOSE_WIN"})

\* the step runs the destroy handler past its test of destroyed
DestroyRan == sys'.revoked # sys.revoked

\* C36: the destroy handler puts MP_KEY_CLOSE_WIN exactly when the window is
\* destroyed while terminate is not set: one key when something else destroyed
\* the window, none when do_terminate destroyed it; the handler runs past its
\* test of destroyed once per window, and no other step but WM_CLOSE puts
\* the key
C36_CloseOnForeignDestroy ==
    [][/\ DestroyRan =>
            /\ ~w32.destroyed /\ w32'.destroyed
            /\ sys'.revoked = 1
            /\ CloseKeys(sys') - CloseKeys(sys) = IF w32'.terminate THEN 0 ELSE 1
       /\ ~DestroyRan =>
            /\ w32'.destroyed = w32.destroyed
            /\ CloseKeys(sys') - CloseKeys(sys)
                  = IF hist'.msgs # hist.msgs THEN 1 ELSE 0]_vars

\* something else destroyed the window: one key from the destroy handler,
\* also after the WM_NCDESTROY that follows and after do_terminate
C36_Witness ==
    /\ w32.destroyed /\ w32.terminate /\ sys.hwnd = "dead"
    /\ gui.pc = "exited" /\ sys.destroy_calls = 0
    /\ hist.msgs = 1 /\ CloseKeys(sys) = 1

\* do_terminate destroyed the window: no key
C36_Witness_Terminate ==
    /\ w32.destroyed /\ w32.terminate /\ sys.destroy_calls = 1
    /\ gui.pc = "exited"
    /\ hist.msgs = 0 /\ CloseKeys(sys) = 0

-----------------------------------------------------------------------------
(* WM_CLOSE *)

\* Two caller threads and a window of its own under fair scheduling; the only
\* window message is WM_CLOSE (the user closes the window, any number of
\* times up to MaxMsgs).
CloseGuiStep ==
    \/ \E ok \in BOOLEAN : gui_thread_create(ok)
    \/ GetMessage_WM_USER
    \/ GetMessage_WM_QUIT
    \/ run_message_loop_fallback
    \/ process_take
    \/ process_run
    \/ process_complete
    \/ process_return
    \/ gui_thread_exit

CloseNext ==
    \/ CloseGuiStep
    \/ RunStep
    \/ LockStep
    \/ \E c \in Callers, rq \in ConcRequests : hist.calls < MaxCalls /\ Submit(c, rq)
    \/ check_events("aux")
    \/ WM_CLOSE

SpecClose ==
    /\ FairInit /\ [][CloseNext]_vars
    /\ WF_vars(CloseGuiStep)
    /\ \A c \in Callers : WF_vars(CallerProgress(c))
    /\ WF_vars(vo_w32_init_return \/ vo_w32_uninit_join)

\* the step handles a window message (in SpecClose: a WM_CLOSE)
MessageStep == hist'.msgs # hist.msgs

\* C37: handling WM_CLOSE puts one MP_KEY_CLOSE_WIN and changes nothing else:
\* window, destroyed, terminate and every other field of the state stay, the
\* window lives on; and after any number of WM_CLOSE a thread inside a
\* synchronous call gets its item executed and returns
C37_CloseKeepsWindow ==
    /\ [][MessageStep =>
             /\ w32' = w32
             /\ sys' = [sys EXCEPT !.keys = Append(@, Key("MP_KEY_CLOSE_WIN", 0, {}, FALSE))]
             /\ sys'.hwnd = "alive" /\ w32'.window = HWND
             /\ ~w32'.destroyed /\ ~w32'.terminate
             /\ event_flags' = event_flags /\ gui' = gui]_vars
    /\ \A c \in Callers :
          (hist.msgs > 0 /\ ~UninitCalled /\ callers[c].pc \in {"wakeup", "wait"})
              ~> /\ callers[c].pc = "idle"
                 /\ callers[c].item \in DOMAIN items
                 /\ items[callers[c].item].completed

\* after two WM_CLOSE the GUI thread got a wake-up from GetMessageW and has
\* run a task of a caller
C37_Witness ==
    /\ hist.msgs = 2 /\ CloseKeys(sys) = 2
    /\ gui.pc = "ran" /\ gui.from = "WM_USER"
    /\ items[gui.item].fn = "gui_thread_reconfig"
    /\ ~w32.destroyed /\ ~w32.terminate /\ sys.hwnd = "alive"

-----------------------------------------------------------------------------
(* Mouse buttons *)

\* One caller thread configures the window and switches fullscreen on and
\* off; the user presses and releases the left and right buttons, with Shift
\* held or not, inside a dragging-test region or not, and may drag the window.
MouseRequests ==
    { Rq("gui_thread_reconfig", "none", [x0 |-> 1, y0 |-> 2, w |-> 6, h |-> 3], NoSet) }
    \cup { Rq("do_control", "VOCTRL_FULLSCREEN", <<>>, [fullscreen |-> b]) : b \in BOOLEAN }

ButtonMessages == {"WM_LBUTTONDOWN", "WM_LBUTTONUP", "WM_RBUTTONDOWN"}

\* a button message with the keys held, what mp_input_mouse_enabled answers,
\* what mp_input_test_dragging answers (asked for a left-button-down only)
\* and how far the window is dragged (when the drag can start only)
ButtonInputs ==
    { i \in [message : ButtonMessages, kbd : {{}, {"VK_SHIFT"}}, enabled : BOOLEAN,
             dragging : BOOLEAN, moved : {<<>>, <<2, 1>>}] :
        /\ i.dragging => i.message = "WM_LBUTTONDOWN"
        /\ i.moved # <<>> => /\ i.message = "WM_LBUTTONDOWN" /\ i.kbd = {}
                             /\ i.enabled /\ ~i.dragging }

MouseInit == InitWith(DefaultOpts)

MouseNext ==
    \/ vo_w32_init
    \/ gui_thread_create(TRUE)
    \/ vo_w32_init_return
    \/ \E rq \in MouseRequests : hist.calls < MaxMouseCalls /\ Submit("vo", rq)
    \/ wakeup_gui_thread("vo")
    \/ mp_dispatch_run_return("vo")
    \/ GetMessage_WM_USER
    \/ process_take
    \/ process_run
    \/ process_complete
    \/ process_return
    \/ \E i \in ButtonInputs :
           WM_BUTTON(i.message, i.kbd, i.enabled, i.dragging, i.moved)

SpecMouse == MouseInit /\ [][MouseNext]_vars

ButtonHandled == hist.probe.fn = "WndProc_button"

\* the keys the handler put: button b down, then button b up
DownThenUp(b) ==
    /\ Len(sys.keys) = Len(hist.probe.keys) + 2
    /\ SubSeq(sys.keys, 1, Len(hist.probe.keys)) = hist.probe.keys
    /\ LET d == sys.keys[Len(sys.keys) - 1]
           u == sys.keys[Len(sys.keys)]
       IN  /\ d.name = b /\ d.down /\ ~d.up
           /\ u.name = b /\ u.up /\ ~u.down

\* C38 as stated: a left-button-down with mouse input enabled, not in
\* fullscreen and outside the dragging-test regions puts MP_MOUSE_BTN0 down
\* and then MP_MOUSE_BTN0 up before the handler returns
C38_Original ==
    (/\ ButtonHandled /\ hist.probe.message = "WM_LBUTTONDOWN"
     /\ hist.probe.enabled /\ ~hist.probe.fs /\ ~hist.probe.dragging)
        => DownThenUp("MP_MOUSE_BTN0")

\* C38: a left-button-down starts the window drag exactly when mouse input
\* is enabled, the window is not fullscreen, the point is in no dragging-test
\* region and no Ctrl, Shift or Alt is held; the handler then puts
\* MP_MOUSE_BTN0 down and MP_MOUSE_BTN0 up (both without modifiers), releases
\* the capture and returns without DefWindowProcW; any other button message
\* puts its one key and sets the capture on a down, releases it otherwise
C38_DragReleasesButton ==
    ButtonHandled =>
        LET p == hist.probe
            b == mouse_button(p.message)
        IN  /\ p.drag <=> /\ p.message = "WM_LBUTTONDOWN"
                          /\ p.enabled /\ ~p.fs /\ ~p.dragging /\ p.mods = {}
            /\ p.drag =>
                  /\ DownThenUp("MP_MOUSE_BTN0")
                  /\ sys.keys[Len(sys.keys) - 1].mods = {}
                  /\ sys.keys[Len(sys.keys)].mods = {}
                  /\ ~sys.capture /\ ~p.def
            /\ ~p.drag =>
                  /\ sys.keys = Append(p.keys, MouseKey(b.btn, b.state, p.mods))
                  /\ sys.capture = (b.state = "MP_KEY_STATE_DOWN")
                  /\ p.def

\* the left button went down on a configured, windowed window, the user
\* dragged the window, and the button is up again
C38_Witness ==
    /\ ButtonHandled /\ hist.probe.drag
    /\ hist.probe.moved # <<>> /\ w32.window_x # hist.probe.w.window_x
    /\ hist.calls = 2 /\ w32.window_bounds_initialized
    /\ DownThenUp("MP_MOUSE_BTN0")

\* the left button went down with Shift held: no drag, the button stays down
C38_Witness_Shift ==
    /\ ButtonHandled /\ hist.probe.message = "WM_LBUTTONDOWN"
    /\ hist.probe.enabled /\ ~hist.probe.fs /\ ~hist.probe.dragging
    /\ hist.probe.mods = {"MP_KEY_MODIFIER_SHIFT"}
    /\ ~hist.probe.drag /\ sys.capture
    /\ sys.keys[Len(sys.keys)].down

====
